---- MODULE Spec2Model ----
(***************************************************************************)
(* Serial monitor: the acquisition pipeline of src/src/main.rs,            *)
(* src/src/serial.rs and the control intents of src/src/gui.rs.            *)
(*                                                                         *)
(* Three threads share channels and lock-guarded values:                   *)
(*   serial_thread  (serial.rs)  connection manager + I/O worker           *)
(*   main_thread    (main.rs)    data aggregator                           *)
(*   MyApp::update  (gui.rs)     the consumer                              *)
(*                                                                         *)
(* Strings whose characters matter (payloads) are sequences of one-        *)
(* character strings, so that split() really tokenizes them.               *)
(***************************************************************************)
EXTENDS Integers, Sequences, FiniteSets, TLC

VARIABLES
    \* ---- main_thread (aggregator) locals, main.rs:98-101
    data,                   \* DataContainer
    failed_format_counter,
    file_opened,
    pc_main,                \* position in the loop body, main.rs:103-234
    \* ---- shared / channels
    data_lock,              \* Arc<RwLock<DataContainer>>: published snapshot
    raw_data_rx,            \* channel worker -> aggregator (Packet)
    clear_rx,               \* channel consumer -> aggregator (bool)
    load_rx,                \* channel consumer -> aggregator (PathBuf)
    save_rx,                \* channel consumer -> aggregator (FileOptions)
    load_names_rx,          \* channel aggregator -> consumer (Vec<String>)
    \* ---- consumer (MyApp) fields
    gui_file_opened,        \* MyApp.file_opened
    \* ---- the producer's clock (milliseconds since t_zero)
    clock,
    \* ---- history: a file was loaded and neither a close-file request nor a
    \*      clear command has been processed since
    h_file_mode,
    \* ---- history: the error-level record that main_thread's last step wrote
    \*      to the application log (log::error!), "none" if it wrote none
    h_logged,
    \* ---- the environment: the endpoints attached to the machine
    present,
    \* ---- shared with serial_thread, main.rs:243-246
    devices_lock,           \* Arc<RwLock<Vec<String>>>: enumerated endpoints
    device_lock,            \* Arc<RwLock<Device>>: configured endpoint
    connected_lock,         \* Arc<RwLock<bool>>
    send_rx,                \* channel consumer -> worker (String)
    \* ---- serial_thread locals
    last_connected_device,  \* serial.rs:214, the reconnection memory
    pc_ser,                 \* position in serial_thread / get_device
    device,                 \* serial.rs:228, the endpoint of the session
    devices,                \* the enumeration read last (get_device, line 266)
    port,                   \* the open port handle: its endpoint, or NoPort
    \* ---- consumer (MyApp) fields
    connected_to_device,    \* gui.rs:1888, the consumer's copy of the flag
    \* ---- history: the consumer pressed Disconnect during an open session
    \*      and has not set an endpoint name since
    h_user_disconnect,
    \* ---- history: the configured name when get_device last resolved
    h_cfg_name,
    \* ---- history: an open has failed, and since then the manager has not
    \*      slept, no open has succeeded and the consumer has configured no
    \*      endpoint
    h_open_failed,
    \* ---- history: what the last port operation of the current worker cycle
    \*      did (its kind and outcome, control lines toggled, bytes put on the
    \*      wire); idle at the start of every cycle
    h_io,
    \* ---- consumer (MyApp) fields
    gui_device,             \* serial_devices.devices[device_idx], gui.rs:688-860
    history,                \* gui.rs:138, the commands sent
    index,                  \* gui.rs:139, the position in the history (usize)
    gui_panicked,           \* the consumer's thread has panicked
    \* ---- the environment: the bytes that have arrived at the open port and
    \*      that no read_line has taken yet
    rx_wire

aggVars == <<data, failed_format_counter, file_opened, pc_main, data_lock,
             raw_data_rx, clear_rx, load_rx, save_rx, load_names_rx,
             gui_file_opened, clock, h_file_mode, h_logged>>

\* the aggregator's variables that serial_thread never touches
aggOnlyVars == <<data, failed_format_counter, file_opened, pc_main, data_lock,
                 clear_rx, load_rx, save_rx, load_names_rx, gui_file_opened,
                 h_file_mode, h_logged>>

serVars == <<present, devices_lock, device_lock, connected_lock, send_rx,
             last_connected_device, pc_ser, device, devices, port,
             connected_to_device, h_user_disconnect, h_cfg_name>>

histVars == <<h_open_failed, h_io>>

\* the variables that only the runs about the link parameters, the command
\* history and the byte stream of the port change
restVars == <<gui_device, history, index, gui_panicked, rx_wire>>

vars == <<aggVars, serVars, histVars, restVars>>

----------------------------------------------------------------------------
(* Bounds of the model *)

\* events the producer feeds in a run of SpecAgg
MaxFeed == 3
\* events the producer feeds in a run of SpecFile
MaxFeedFile == 3
\* events the producer feeds in a run of SpecTol
MaxFeedDeep == 14
\* capacity given to each request channel of the consumer
MaxReq == 1
\* packets waiting on the event channel when the worker emits more
MaxQueue == 1
\* characters of a buffer that read_line returns, in the runs about decoding
MaxBuf == 4
\* characters of a payload, in the runs about the tokenization
MaxLen == 5
\* frames of the device whose format changes for good
MaxFeedDrift == 15
\* bytes that have arrived at the port and wait to be read
MaxWire == 4
\* commands waiting on the command channel when a Connect or Disconnect
\* button queues one more
MaxSend == 1
\* commands waiting on the command channel when the consumer types one more
MaxTyped == 2
\* milliseconds a session lasts in a run of SpecPipe
MaxTime == 1
\* events in the raw-event log in a run of SpecPipe
MaxLog == 2

(* Program constants *)

\* main.rs:123  failed_format_counter > 10
FormatThreshold == 10

----------------------------------------------------------------------------
(* Generic helpers *)

Max(a, b) == IF a >= b THEN a ELSE b

\* vec![x; n]
Repeat(x, n) == [i \in 1..n |-> x]

Range(s) == {s[i] : i \in 1..Len(s)}

RECURSIVE Flatten(_)
Flatten(ss) == IF ss = <<>> THEN <<>> ELSE Head(ss) \o Flatten(Tail(ss))

----------------------------------------------------------------------------
(* split(), main.rs:40-50 *)

Digits == {"0", "1", "2", "3", "4", "5", "6", "7", "8", "9"}

DigitVal(c) ==
    CASE c = "0" -> 0 [] c = "1" -> 1 [] c = "2" -> 2 [] c = "3" -> 3
      [] c = "4" -> 4 [] c = "5" -> 5 [] c = "6" -> 6 [] c = "7" -> 7
      [] c = "8" -> 8 [] c = "9" -> 9

\* str::split(ch): the pieces between occurrences of ch; "" gives one empty piece
RECURSIVE StrSplit(_, _)
StrSplit(s, ch) ==
    IF \A i \in 1..Len(s) : s[i] /= ch
    THEN <<s>>
    ELSE LET k == CHOOSE i \in 1..Len(s) :
                      s[i] = ch /\ \A j \in 1..(i - 1) : s[j] /= ch
         IN <<SubSeq(s, 1, k - 1)>> \o StrSplit(SubSeq(s, k + 1, Len(s)), ch)

\* str::trim(): leading and trailing white space removed
RECURSIVE Trim(_)
Trim(s) ==
    IF s = <<>> THEN s
    ELSE IF Head(s) = " " THEN Trim(Tail(s))
    ELSE IF s[Len(s)] = " " THEN Trim(SubSeq(s, 1, Len(s) - 1))
    ELSE s

\* str::parse::<f32>() over the alphabet of the model (digits, letters,
\* separators, blanks): Ok exactly for a non-empty string of digits
ParseOk(tok) == tok /= <<>> /\ \A i \in 1..Len(tok) : tok[i] \in Digits

RECURSIVE ParseVal(_)
ParseVal(tok) ==
    IF tok = <<>> THEN 0
    ELSE 10 * ParseVal(SubSeq(tok, 1, Len(tok) - 1)) + DigitVal(tok[Len(tok)])

\* flat_map over Result: the Ok values, in order
RECURSIVE ParsedOnly(_)
ParsedOnly(toks) ==
    IF toks = <<>> THEN <<>>
    ELSE LET t == Trim(Head(toks))
         IN (IF ParseOk(t) THEN <<ParseVal(t)>> ELSE <<>>) \o ParsedOnly(Tail(toks))

\* the tokens of the payload: split on ':', each piece split on ','
SplitTokens(payload) ==
    LET groups == StrSplit(payload, ":")
    IN Flatten([i \in 1..Len(groups) |-> StrSplit(groups[i], ",")])

\* a variant of split that gives an empty vector when a token does not parse
splitAllOrNothing(payload) ==
    LET toks == SplitTokens(payload)
    IN IF \A i \in 1..Len(toks) : ParseOk(Trim(toks[i]))
       THEN ParsedOnly(toks)
       ELSE <<>>

split(payload) == ParsedOnly(SplitTokens(payload))

----------------------------------------------------------------------------
(* DataContainer and Packet (crate::data, used by main.rs and serial.rs) *)

DataContainerDefault ==
    [time |-> <<>>, absolute_time |-> <<>>, dataset |-> <<>>,
     raw_traffic |-> <<>>, loaded_from_file |-> FALSE]

Packet(dir, payload, rel, abs) ==
    [direction |-> dir, payload |-> payload,
     relative_time |-> rel, absolute_time |-> abs]

----------------------------------------------------------------------------
(* Files the consumer can ask to load (crate::io is not part of the        *)
(* sources: open_from_csv follows section 4.5 of the specification)        *)

CsvGood ==
    [ext |-> "csv", names |-> <<"A", "B">>,
     rows |-> << <<0, 1, 3>>, <<100, 2, 4>> >>]

\* data rows of different widths
CsvRagged ==
    [ext |-> "csv", names |-> <<"A", "B">>,
     rows |-> << <<0, 1, 3>>, <<100, 2>> >>]

TxtFile == [ext |-> "txt", names |-> <<>>, rows |-> <<>>]

\* PathBuf::new(): no extension (the consumer's close-file request)
NoPath == [ext |-> "", names |-> <<>>, rows |-> <<>>]

\* a file without an extension (its content is that of CsvGood)
PlainFile ==
    [ext |-> "", names |-> <<"A", "B">>,
     rows |-> << <<0, 1, 3>>, <<100, 2, 4>> >>]

Paths == {CsvGood, CsvRagged, TxtFile, PlainFile}

\* open_from_csv(&mut data, &mut file_options): Ok replaces the dataset by
\* the file's, marked file-origin; mismatched row widths are a hard failure
\* that leaves the dataset as it was
open_from_csv(d, fp) ==
    LET width == 1 + Len(fp.names)
        good  == \A i \in 1..Len(fp.rows) : Len(fp.rows[i]) = width
    IN IF good
       THEN [ok |-> TRUE, names |-> fp.names,
             data |-> [time |-> [i \in 1..Len(fp.rows) |-> fp.rows[i][1]],
                       absolute_time |-> <<>>,
                       dataset |-> [c \in 1..Len(fp.names) |->
                                      [i \in 1..Len(fp.rows) |-> fp.rows[i][c + 1]]],
                       raw_traffic |-> <<>>,
                       loaded_from_file |-> TRUE]]
       ELSE [ok |-> FALSE, names |-> <<>>, data |-> d]

----------------------------------------------------------------------------
(* main_thread, main.rs:88-235 *)

\* a variant of LogPacket that keeps only the packets with a numeric token
LogPacketParsedOnly(d, packet) ==
    IF split(packet.payload) /= <<>>
    THEN [d EXCEPT !.raw_traffic = Append(@, packet)]
    ELSE d

\* a variant of LogPacket that puts the newest event first
LogPacketFirst(d, packet) == [d EXCEPT !.raw_traffic = <<packet>> \o @]

\* main.rs:115: data.raw_traffic.push(packet.clone())
LogPacket(d, packet) == [d EXCEPT !.raw_traffic = Append(@, packet)]

\* a variant of NeedsReset without tolerance: any earlier mismatch resets
NeedsResetNoTolerance(d, c) == Len(d.dataset) = 0 \/ c > 0

\* a variant of NeedsReset that compares with >= instead of >
NeedsResetAtThreshold(d, c) == Len(d.dataset) = 0 \/ c >= FormatThreshold

\* main.rs:123: the condition under which the columns are created anew
NeedsReset(d, c) == Len(d.dataset) = 0 \/ c > FormatThreshold

\* main.rs:125 and 139: vec![vec![]; max(split_data.len(), 1)]
NewColumns(split_data) == Repeat(<<>>, Max(Len(split_data), 1))

\* a variant of PushRow that forgets the relative time stamp
PushRowNoTime(d, split_data, packet) ==
    [d EXCEPT !.dataset = [i \in 1..Len(@) |-> Append(@[i], split_data[i])],
              !.absolute_time = Append(@, packet.absolute_time)]

\* main.rs:130-135: one value per column, and the two time stamps
PushRow(d, split_data, packet) ==
    [d EXCEPT !.dataset = [i \in 1..Len(@) |-> Append(@[i], split_data[i])],
              !.time = Append(@, packet.relative_time),
              !.absolute_time = Append(@, packet.absolute_time)]

\* a variant of ParsePacket in which a frame of the epoch's width leaves the
\* counter as it is
ParsePacketCountsAll(d, c, packet) ==
    LET split_data == split(packet.payload)
        logged == LogPacket(d, packet)
    IN IF NeedsReset(logged, c)
       THEN \* resetting dataset
            [data |-> [logged EXCEPT !.dataset = NewColumns(split_data)],
             counter |-> 0]
       ELSE IF Len(split_data) = Len(logged.dataset)
       THEN \* appending data
            LET pushed == PushRow(logged, split_data, packet)
            IN IF Len(pushed.time) /= Len(pushed.dataset[1])
               THEN \* resetting dataset
                    [data |-> [pushed EXCEPT !.time = <<>>,
                                             !.dataset = NewColumns(split_data)],
                     counter |-> 0]
               ELSE [data |-> pushed, counter |-> c]
       ELSE \* not same length
            [data |-> logged, counter |-> c + 1]

\* main.rs:113-146: the body run for a packet whose payload is not empty
ParsePacket(d, c, packet) ==
    LET split_data == split(packet.payload)
        logged == LogPacket(d, packet)
    IN IF NeedsReset(logged, c)
       THEN \* resetting dataset
            [data |-> [logged EXCEPT !.dataset = NewColumns(split_data)],
             counter |-> 0]
       ELSE IF Len(split_data) = Len(logged.dataset)
       THEN \* appending data
            LET pushed == PushRow(logged, split_data, packet)
            IN IF Len(pushed.time) /= Len(pushed.dataset[1])
               THEN \* resetting dataset
                    [data |-> [pushed EXCEPT !.time = <<>>,
                                             !.dataset = NewColumns(split_data)],
                     counter |-> 0]
               ELSE [data |-> pushed, counter |-> 0]
       ELSE \* not same length
            [data |-> logged, counter |-> c + 1]

\* main.rs:111-146: what a received packet does to (data, failed_format_counter)
OnPacket(d, c, packet) ==
    LET live == [d EXCEPT !.loaded_from_file = FALSE]
    IN IF packet.payload /= <<>>
       THEN ParsePacket(live, c, packet)
       ELSE [data |-> live, counter |-> c]

\* a variant of MainClear that leaves failed_format_counter as it is
MainClearKeepsCounter ==
    /\ pc_main = "clear"
    /\ pc_main' = "recv"
    /\ IF clear_rx /= <<>>
       THEN /\ clear_rx' = Tail(clear_rx)
            /\ IF Head(clear_rx)
               THEN /\ data' = DataContainerDefault
                    /\ h_file_mode' = FALSE
               ELSE UNCHANGED <<data, h_file_mode>>
       ELSE UNCHANGED <<clear_rx, data, h_file_mode>>
    /\ UNCHANGED <<failed_format_counter, file_opened, data_lock, raw_data_rx,
                   load_rx, save_rx, load_names_rx, gui_file_opened, clock>>
    /\ UNCHANGED <<serVars, histVars>>
    /\ h_logged' = "none"
    /\ UNCHANGED restVars

\* a variant of MainClear in which a clear command also empties the command
\* channel
MainClearFlushesCommands ==
    /\ pc_main = "clear"
    /\ pc_main' = "recv"
    /\ IF clear_rx /= <<>>
       THEN /\ clear_rx' = Tail(clear_rx)
            /\ IF Head(clear_rx)
               THEN /\ data' = DataContainerDefault
                    /\ failed_format_counter' = 0
                    /\ h_file_mode' = FALSE
                    /\ send_rx' = <<>>
               ELSE UNCHANGED <<data, failed_format_counter, h_file_mode,
                                send_rx>>
       ELSE UNCHANGED <<clear_rx, data, failed_format_counter, h_file_mode,
                        send_rx>>
    /\ UNCHANGED <<file_opened, data_lock, raw_data_rx, load_rx, save_rx,
                   load_names_rx, gui_file_opened, clock>>
    /\ UNCHANGED <<present, devices_lock, device_lock, connected_lock,
                   last_connected_device, pc_ser, device, devices, port,
                   connected_to_device, h_user_disconnect, h_cfg_name>>
    /\ UNCHANGED histVars
    /\ h_logged' = "none"
    /\ UNCHANGED restVars

\* main.rs:104-109
MainClear ==
    /\ pc_main = "clear"
    /\ pc_main' = "recv"
    /\ IF clear_rx /= <<>>
       THEN /\ clear_rx' = Tail(clear_rx)
            /\ IF Head(clear_rx)
               THEN /\ data' = DataContainerDefault
                    /\ failed_format_counter' = 0
                    /\ h_file_mode' = FALSE
               ELSE UNCHANGED <<data, failed_format_counter, h_file_mode>>
       ELSE UNCHANGED <<clear_rx, data, failed_format_counter, h_file_mode>>
    /\ UNCHANGED <<file_opened, data_lock, raw_data_rx, load_rx, save_rx,
                   load_names_rx, gui_file_opened, clock>>
    /\ UNCHANGED <<serVars, histVars>>
    /\ h_logged' = "none"
    /\ UNCHANGED restVars

\* main.rs:110-178
MainRecv ==
    /\ pc_main = "recv"
    /\ pc_main' = "load"
    /\ IF ~file_opened /\ raw_data_rx /= <<>>
       THEN LET r == OnPacket(data, failed_format_counter, Head(raw_data_rx))
            IN /\ raw_data_rx' = Tail(raw_data_rx)
               /\ data' = r.data
               /\ failed_format_counter' = r.counter
       ELSE UNCHANGED <<raw_data_rx, data, failed_format_counter>>
    /\ UNCHANGED <<file_opened, data_lock, clear_rx, load_rx, save_rx,
                   load_names_rx, gui_file_opened, clock, h_file_mode>>
    /\ UNCHANGED <<serVars, histVars>>
    /\ h_logged' = "none"
    /\ UNCHANGED restVars

\* a variant of MainLoad that hands a file of any extension to open_from_csv
MainLoadAnyExtension ==
    /\ pc_main = "load"
    /\ IF load_rx /= <<>>
       THEN LET fp == Head(load_rx)
                r  == open_from_csv(data, fp)
            IN /\ load_rx' = Tail(load_rx)
               /\ IF fp.ext /= ""
                  THEN /\ file_opened' = r.ok
                       /\ data' = r.data
                       /\ load_names_rx' =
                            IF r.ok THEN Append(load_names_rx, r.names)
                                    ELSE load_names_rx
                       /\ h_file_mode' = (r.ok \/ h_file_mode)
                       /\ h_logged' = IF r.ok THEN "none" ELSE "load"
                       /\ pc_main' = "publish"
                  ELSE /\ file_opened' = FALSE
                       /\ h_file_mode' = FALSE
                       /\ UNCHANGED <<data, load_names_rx>>
                       /\ h_logged' = "none"
                       /\ pc_main' = "publish"
       ELSE /\ file_opened' = FALSE
            /\ pc_main' = "publish"
            /\ h_logged' = "none"
            /\ UNCHANGED <<load_rx, data, load_names_rx, h_file_mode>>
    /\ UNCHANGED <<failed_format_counter, data_lock, raw_data_rx, clear_rx,
                   save_rx, gui_file_opened, clock>>
    /\ UNCHANGED <<serVars, histVars>>
    /\ UNCHANGED restVars

\* a variant of MainLoad that leaves ingestion suspended after a failed load
MainLoadFailedStaysSuspended ==
    /\ pc_main = "load"
    /\ IF load_rx /= <<>>
       THEN LET fp == Head(load_rx)
                r  == open_from_csv(data, fp)
            IN /\ load_rx' = Tail(load_rx)
               /\ IF fp.ext = "csv"
                  THEN /\ file_opened' = TRUE
                       /\ data' = r.data
                       /\ load_names_rx' =
                            IF r.ok THEN Append(load_names_rx, r.names)
                                    ELSE load_names_rx
                       /\ h_file_mode' = (r.ok \/ h_file_mode)
                       \* main.rs:190 log::info!, 196 log::error!
                       /\ h_logged' = IF r.ok THEN "none" ELSE "load"
                       /\ pc_main' = "publish"
                  ELSE /\ file_opened' = FALSE
                       /\ h_file_mode' = (fp.ext /= "" /\ h_file_mode)
                       /\ UNCHANGED <<data, load_names_rx>>
                       \* an unsupported extension: log::error! (205) and
                       \* continue; no extension (209-211): nothing is
                       \* logged, falls through to the publication
                       /\ h_logged' = IF fp.ext = "" THEN "none" ELSE "extension"
                       /\ pc_main' = IF fp.ext = "" THEN "publish" ELSE "clear"
       ELSE /\ file_opened' = FALSE
            /\ pc_main' = "publish"
            /\ h_logged' = "none"
            /\ UNCHANGED <<load_rx, data, load_names_rx, h_file_mode>>
    /\ UNCHANGED <<failed_format_counter, data_lock, raw_data_rx, clear_rx,
                   save_rx, gui_file_opened, clock>>
    /\ UNCHANGED <<serVars, histVars>>
    /\ UNCHANGED restVars

\* a variant of MainLoad that sends the names whatever open_from_csv returns
MainLoadAnnouncesFailure ==
    /\ pc_main = "load"
    /\ IF load_rx /= <<>>
       THEN LET fp == Head(load_rx)
                r  == open_from_csv(data, fp)
            IN /\ load_rx' = Tail(load_rx)
               /\ IF fp.ext = "csv"
                  THEN /\ file_opened' = r.ok
                       /\ data' = r.data
                       /\ load_names_rx' = Append(load_names_rx, r.names)
                       /\ h_file_mode' = (r.ok \/ h_file_mode)
                       \* main.rs:190 log::info!, 196 log::error!
                       /\ h_logged' = IF r.ok THEN "none" ELSE "load"
                       /\ pc_main' = "publish"
                  ELSE /\ file_opened' = FALSE
                       /\ h_file_mode' = (fp.ext /= "" /\ h_file_mode)
                       /\ UNCHANGED <<data, load_names_rx>>
                       \* an unsupported extension: log::error! (205) and
                       \* continue; no extension (209-211): nothing is
                       \* logged, falls through to the publication
                       /\ h_logged' = IF fp.ext = "" THEN "none" ELSE "extension"
                       /\ pc_main' = IF fp.ext = "" THEN "publish" ELSE "clear"
       ELSE /\ file_opened' = FALSE
            /\ pc_main' = "publish"
            /\ h_logged' = "none"
            /\ UNCHANGED <<load_rx, data, load_names_rx, h_file_mode>>
    /\ UNCHANGED <<failed_format_counter, data_lock, raw_data_rx, clear_rx,
                   save_rx, gui_file_opened, clock>>
    /\ UNCHANGED <<serVars, histVars>>
    /\ UNCHANGED restVars

\* main.rs:179-214
MainLoad ==
    /\ pc_main = "load"
    /\ IF load_rx /= <<>>
       THEN LET fp == Head(load_rx)
                r  == open_from_csv(data, fp)
            IN /\ load_rx' = Tail(load_rx)
               /\ IF fp.ext = "csv"
                  THEN /\ file_opened' = r.ok
                       /\ data' = r.data
                       /\ load_names_rx' =
                            IF r.ok THEN Append(load_names_rx, r.names)
                                    ELSE load_names_rx
                       /\ h_file_mode' = (r.ok \/ h_file_mode)
                       \* main.rs:190 log::info!, 196 log::error!
                       /\ h_logged' = IF r.ok THEN "none" ELSE "load"
                       /\ pc_main' = "publish"
                  ELSE /\ file_opened' = FALSE
                       /\ h_file_mode' = (fp.ext /= "" /\ h_file_mode)
                       /\ UNCHANGED <<data, load_names_rx>>
                       \* an unsupported extension: log::error! (205) and
                       \* continue; no extension (209-211): nothing is
                       \* logged, falls through to the publication
                       /\ h_logged' = IF fp.ext = "" THEN "none" ELSE "extension"
                       /\ pc_main' = IF fp.ext = "" THEN "publish" ELSE "clear"
       ELSE /\ file_opened' = FALSE
            /\ pc_main' = "publish"
            /\ h_logged' = "none"
            /\ UNCHANGED <<load_rx, data, load_names_rx, h_file_mode>>
    /\ UNCHANGED <<failed_format_counter, data_lock, raw_data_rx, clear_rx,
                   save_rx, gui_file_opened, clock>>
    /\ UNCHANGED <<serVars, histVars>>
    /\ UNCHANGED restVars

\* main.rs:216-218
MainPublish ==
    /\ pc_main = "publish"
    /\ pc_main' = "save"
    /\ data_lock' = data
    /\ UNCHANGED <<data, failed_format_counter, file_opened, raw_data_rx,
                   clear_rx, load_rx, save_rx, load_names_rx, gui_file_opened,
                   clock, h_file_mode>>
    /\ UNCHANGED <<serVars, histVars>>
    /\ h_logged' = "none"
    /\ UNCHANGED restVars

\* save_to_csv(&data, &csv_options): writing the file succeeds or fails
save_to_csv == {"Ok", "Err"}

\* main.rs:220-233: the outcome of save_to_csv is logged, log::info! (223) or
\* log::error! (226); nothing else depends on it
MainSave ==
    /\ pc_main = "save"
    /\ pc_main' = "clear"
    /\ IF save_rx /= <<>>
       THEN /\ save_rx' = Tail(save_rx)
            /\ \E res \in save_to_csv :
                  h_logged' = IF res = "Ok" THEN "none" ELSE "save"
       ELSE /\ h_logged' = "none"
            /\ UNCHANGED save_rx
    /\ UNCHANGED <<data, failed_format_counter, file_opened, data_lock,
                   raw_data_rx, clear_rx, load_rx, load_names_rx,
                   gui_file_opened, clock, h_file_mode>>
    /\ UNCHANGED <<serVars, histVars>>
    /\ UNCHANGED restVars

main_thread == MainClear \/ MainRecv \/ MainLoad \/ MainPublish \/ MainSave

----------------------------------------------------------------------------
(* The consumer's requests to the aggregator, gui.rs *)

\* gui.rs:966-982 (and 677-681): Clear Data
ConsumerClear ==
    /\ Len(clear_rx) < MaxReq
    /\ clear_rx' = Append(clear_rx, TRUE)
    /\ UNCHANGED <<data, failed_format_counter, file_opened, pc_main, data_lock,
                   raw_data_rx, load_rx, save_rx, load_names_rx,
                   gui_file_opened, clock, h_file_mode>>
    /\ UNCHANGED <<serVars, histVars>>
    /\ UNCHANGED h_logged
    /\ UNCHANGED restVars

\* gui.rs:1818-1834: a file was picked in the Open dialog
ConsumerLoad ==
    /\ Len(load_rx) < MaxReq
    /\ Len(load_names_rx) < MaxReq
    /\ \E fp \in Paths : load_rx' = Append(load_rx, fp)
    /\ gui_file_opened' = TRUE
    /\ UNCHANGED <<data, failed_format_counter, file_opened, pc_main, data_lock,
                   raw_data_rx, clear_rx, save_rx, load_names_rx, clock, h_file_mode>>
    /\ UNCHANGED <<serVars, histVars>>
    /\ UNCHANGED h_logged
    /\ UNCHANGED restVars

\* gui.rs:882-893: Close file
ConsumerCloseFile ==
    /\ gui_file_opened
    /\ Len(load_rx) < MaxReq
    /\ gui_file_opened' = FALSE
    /\ load_rx' = Append(load_rx, NoPath)
    /\ UNCHANGED <<data, failed_format_counter, file_opened, pc_main, data_lock,
                   raw_data_rx, clear_rx, save_rx, load_names_rx, clock, h_file_mode>>
    /\ UNCHANGED <<serVars, histVars>>
    /\ UNCHANGED h_logged
    /\ UNCHANGED restVars

\* gui.rs:1846-1861: a path was picked in the Save dialog
ConsumerSave ==
    /\ Len(save_rx) < MaxReq
    /\ save_rx' = Append(save_rx, "csv")
    /\ UNCHANGED <<data, failed_format_counter, file_opened, pc_main, data_lock,
                   raw_data_rx, clear_rx, load_rx, load_names_rx,
                   gui_file_opened, clock, h_file_mode>>
    /\ UNCHANGED <<serVars, histVars>>
    /\ UNCHANGED h_logged
    /\ UNCHANGED restVars

\* gui.rs:387-397: the column names announced after a load
ConsumerNames ==
    /\ data_lock.loaded_from_file /\ gui_file_opened
    /\ load_names_rx /= <<>>
    /\ load_names_rx' = Tail(load_names_rx)
    /\ UNCHANGED <<data, failed_format_counter, file_opened, pc_main, data_lock,
                   raw_data_rx, clear_rx, load_rx, save_rx, gui_file_opened,
                   clock, h_file_mode>>
    /\ UNCHANGED <<serVars, histVars>>
    /\ UNCHANGED h_logged
    /\ UNCHANGED restVars

----------------------------------------------------------------------------
(* The producer of events seen from the aggregator: the packets that       *)
(* perform_reads (serial.rs:415-433) and perform_writes (serial.rs:403-411)*)
(* put on the event channel, stamped with the time since t_zero.           *)

P_empty == <<>>
P_12    == <<"1", ",", "2">>
P_3c4   == <<"3", ":", " ", "4">>
P_x7    == <<"x", ",", "7">>
P_7     == <<"7">>
P_x     == <<"x">>

FeedPackets(t) ==
    {Packet("Receive", P_empty, t, 100 + t),
     Packet("Receive", P_12, t, 100 + t),
     Packet("Receive", P_3c4, t, 100 + t),
     Packet("Receive", P_x7, t, 100 + t),
     Packet("Receive", P_x, t, 100 + t),
     Packet("Send", P_empty, t, 100 + t),
     Packet("Send", P_7, t, 100 + t)}

Feed ==
    /\ clock < MaxFeed
    /\ Len(raw_data_rx) < MaxQueue
    /\ \E p \in FeedPackets(clock) : raw_data_rx' = Append(raw_data_rx, p)
    /\ clock' = clock + 1
    /\ UNCHANGED <<data, failed_format_counter, file_opened, pc_main, data_lock,
                   clear_rx, load_rx, save_rx, load_names_rx, gui_file_opened,
                   h_file_mode>>
    /\ UNCHANGED <<serVars, histVars>>
    /\ UNCHANGED h_logged
    /\ UNCHANGED restVars

\* the producer in the runs about files: frames of two numbers or one
FeedFile ==
    /\ clock < MaxFeedFile
    /\ Len(raw_data_rx) < MaxQueue
    /\ \E pl \in {P_12, P_7} :
          raw_data_rx' = Append(raw_data_rx, Packet("Receive", pl, clock, 100 + clock))
    /\ clock' = clock + 1
    /\ UNCHANGED <<data, failed_format_counter, file_opened, pc_main, data_lock,
                   clear_rx, load_rx, save_rx, load_names_rx, gui_file_opened,
                   h_file_mode>>
    /\ UNCHANGED <<serVars, histVars>>
    /\ UNCHANGED h_logged
    /\ UNCHANGED restVars

\* the producer in the runs about the tolerance of width changes: a device
\* whose frames have two numbers or one
FeedDeep ==
    /\ clock < MaxFeedDeep
    /\ Len(raw_data_rx) < MaxQueue
    /\ \E pl \in {P_12, P_7} :
          raw_data_rx' = Append(raw_data_rx, Packet("Receive", pl, clock, 100 + clock))
    /\ clock' = clock + 1
    /\ UNCHANGED <<data, failed_format_counter, file_opened, pc_main, data_lock,
                   clear_rx, load_rx, save_rx, load_names_rx, gui_file_opened,
                   h_file_mode>>
    /\ UNCHANGED <<serVars, histVars>>
    /\ UNCHANGED h_logged
    /\ UNCHANGED restVars

\* the producer in the runs about a format that changes for good: a device
\* that sends two frames of two numbers and from then on frames of one
\* number or of a word
FeedDrift ==
    /\ clock < MaxFeedDrift
    /\ Len(raw_data_rx) < MaxQueue
    /\ \E pl \in (IF clock < 2 THEN {P_12} ELSE {P_7, P_x}) :
          raw_data_rx' = Append(raw_data_rx, Packet("Receive", pl, clock, 100 + clock))
    /\ clock' = clock + 1
    /\ UNCHANGED <<data, failed_format_counter, file_opened, pc_main, data_lock,
                   clear_rx, load_rx, save_rx, load_names_rx, gui_file_opened,
                   h_file_mode>>
    /\ UNCHANGED <<serVars, histVars>>
    /\ UNCHANGED h_logged
    /\ UNCHANGED restVars

----------------------------------------------------------------------------
(* Endpoints and commands, serial.rs *)

NoName == ""
NoPort == "none"
Names == {"A", "B"}
BaudRates == {9600, 115200}

\* Device::default(), serial.rs:81-93 (the fields serial_thread reads)
DeviceDefault == [name |-> NoName, baud_rate |-> 9600]

\* Device::default(), serial.rs:81-93, all its fields (timeout in ms)
DeviceFullDefault ==
    [name |-> NoName, baud_rate |-> 9600, data_bits |-> 8,
     flow_control |-> "None", parity |-> "None", stop_bits |-> 1,
     timeout |-> 0]

CR == "\r"
LF == "\n"
NUL == "NUL"

\* gui.rs:720 and serial.rs:360
ResetCmd == <<"__RESET__", CR, LF>>
\* gui.rs:715 and serial.rs:378
CtrlcCmd == <<"__CTRLC__", CR, LF>>
\* serial.rs:390
CtrlcText == <<"Ctrl+R (0x03)">>

\* a port operation of kind op that toggled the control lines or not and put
\* bytes on the wire
Io(op, toggled, bytes) == [op |-> op, toggled |-> toggled, bytes |-> bytes]

\* no port operation yet in this cycle
IoIdle == Io("idle", FALSE, <<>>)

\* serial.rs:381: the interrupt byte
ETX == "0x03"

\* str::contains(delim)
Contains(s, delim) ==
    \E k \in 1..(Len(s) - Len(delim) + 1) :
        SubSeq(s, k, k + Len(delim) - 1) = delim

\* str::split(delim) for a delimiter of several characters
RECURSIVE SplitSeq(_, _)
SplitSeq(s, delim) ==
    IF ~Contains(s, delim)
    THEN <<s>>
    ELSE LET k == CHOOSE i \in 1..(Len(s) - Len(delim) + 1) :
                      /\ SubSeq(s, i, i + Len(delim) - 1) = delim
                      /\ \A j \in 1..(i - 1) :
                             SubSeq(s, j, j + Len(delim) - 1) /= delim
         IN <<SubSeq(s, 1, k - 1)>>
                \o SplitSeq(SubSeq(s, k + Len(delim), Len(s)), delim)

\* str::split_terminator(delim): as split, without a last empty piece
SplitTerminator(s, delim) ==
    LET pieces == SplitSeq(s, delim)
    IN IF pieces[Len(pieces)] = <<>>
       THEN SubSeq(pieces, 1, Len(pieces) - 1)
       ELSE pieces

\* a variant of Decode without the fallback delimiter
DecodePrimaryOnly(buf) == SplitTerminator(buf, <<CR, LF>>)

\* serial.rs:423-424: the lines of a buffer that read_line filled
Decode(buf) ==
    LET delimiter == IF Contains(buf, <<CR, LF>>) THEN <<CR, LF>> ELSE <<NUL, NUL>>
    IN SplitTerminator(buf, delimiter)

\* what one read_line can return in the model
Buffers ==
    {<<CR, LF>>,
     <<"7", NUL, NUL, "8", LF>>}

\* the buffers of at most n atoms
RECURSIVE BufsUpTo(_)
BufsUpTo(n) ==
    IF n = 0 THEN {<<>>}
    ELSE LET shorter == BufsUpTo(n - 1)
         IN shorter \cup
              {Append(b, a) : b \in {x \in shorter : Len(x) = n - 1},
                              a \in {CR, LF, NUL}}

\* serial.rs:103-108: read_line stops after the first LF, so a buffer holds LF
\* as its last character or not at all (end of input); DecodeBuffers is every
\* such buffer of at most MaxBuf characters over CR, LF and NUL
DecodeBuffers ==
    {b \in BufsUpTo(MaxBuf) : \A i \in 1..(Len(b) - 1) : b[i] /= LF}

----------------------------------------------------------------------------
(* serial_thread, serial.rs:207-282 *)

\* a variant of SerialTop that leaves the connected flag as it is
SerialTopKeepsFlag ==
    /\ pc_ser = "top"
    /\ pc_ser' = "get_device"
    /\ UNCHANGED <<present, devices_lock, device_lock, connected_lock, send_rx,
                   last_connected_device, device, devices, port,
                   connected_to_device, h_user_disconnect, h_cfg_name>>
    /\ UNCHANGED <<aggOnlyVars, raw_data_rx, clock>>
    /\ UNCHANGED histVars
    /\ UNCHANGED restVars

\* serial.rs:216-226: the head of the outer loop
SerialTop ==
    /\ pc_ser = "top"
    /\ connected_lock' = FALSE
    /\ pc_ser' = "get_device"
    /\ UNCHANGED <<present, devices_lock, device_lock, send_rx,
                   last_connected_device, device, devices, port,
                   connected_to_device, h_user_disconnect, h_cfg_name>>
    /\ UNCHANGED <<aggOnlyVars, raw_data_rx, clock>>
    /\ UNCHANGED histVars
    /\ UNCHANGED restVars

\* serial.rs:299-302: get_device enumerates and publishes the list
GetDeviceEnum ==
    /\ pc_ser = "get_device"
    /\ devices' = present
    /\ devices_lock' = present
    /\ pc_ser' = "gd_decide"
    /\ UNCHANGED <<present, device_lock, connected_lock, send_rx,
                   last_connected_device, device, port, connected_to_device,
                   h_user_disconnect, h_cfg_name>>
    /\ UNCHANGED <<aggOnlyVars, raw_data_rx, clock>>
    /\ UNCHANGED histVars
    /\ UNCHANGED restVars

\* a variant of GetDeviceDecide that returns a configured endpoint without
\* looking for it in the enumeration
GetDeviceDecideUnchecked ==
    /\ pc_ser = "gd_decide"
    /\ h_cfg_name' = device_lock.name
    /\ IF last_connected_device.name \in devices
       THEN /\ device_lock' = last_connected_device
            /\ device' = last_connected_device
            /\ pc_ser' = "open"
       ELSE IF device_lock.name /= NoName
       THEN /\ device' = device_lock
            /\ pc_ser' = "open"
            /\ UNCHANGED device_lock
       ELSE /\ pc_ser' = "gd_sleep"
            /\ UNCHANGED <<device_lock, device>>
    /\ UNCHANGED <<present, devices_lock, connected_lock, send_rx,
                   last_connected_device, devices, port, connected_to_device,
                   h_user_disconnect>>
    /\ UNCHANGED <<aggOnlyVars, raw_data_rx, clock>>
    /\ UNCHANGED histVars
    /\ UNCHANGED restVars

\* a variant of GetDeviceDecide that looks at the configured endpoint first
GetDeviceDecideConfiguredFirst ==
    /\ pc_ser = "gd_decide"
    /\ h_cfg_name' = device_lock.name
    /\ IF device_lock.name \in devices
       THEN /\ device' = device_lock
            /\ pc_ser' = "open"
            /\ UNCHANGED device_lock
       ELSE IF last_connected_device.name \in devices
       THEN /\ device_lock' = last_connected_device
            /\ device' = last_connected_device
            /\ pc_ser' = "open"
       ELSE /\ pc_ser' = "gd_sleep"
            /\ UNCHANGED <<device_lock, device>>
    /\ UNCHANGED <<present, devices_lock, connected_lock, send_rx,
                   last_connected_device, devices, port, connected_to_device,
                   h_user_disconnect>>
    /\ UNCHANGED <<aggOnlyVars, raw_data_rx, clock>>
    /\ UNCHANGED histVars
    /\ UNCHANGED restVars

\* serial.rs:304-318: get_device resolves the endpoint to open
GetDeviceDecide ==
    /\ pc_ser = "gd_decide"
    /\ h_cfg_name' = device_lock.name
    /\ IF last_connected_device.name \in devices
       THEN \* do reconnect
            /\ device_lock' = [device_lock EXCEPT
                                 !.name = last_connected_device.name,
                                 !.baud_rate = last_connected_device.baud_rate]
            /\ device' = last_connected_device
            /\ pc_ser' = "open"
       ELSE IF device_lock.name \in devices
       THEN /\ device' = device_lock
            /\ pc_ser' = "open"
            /\ UNCHANGED device_lock
       ELSE /\ pc_ser' = "gd_sleep"
            /\ UNCHANGED <<device_lock, device>>
    /\ UNCHANGED <<present, devices_lock, connected_lock, send_rx,
                   last_connected_device, devices, port, connected_to_device,
                   h_user_disconnect>>
    /\ UNCHANGED <<aggOnlyVars, raw_data_rx, clock>>
    /\ UNCHANGED histVars
    /\ UNCHANGED restVars

\* serial.rs:318: thread::sleep(100 ms), then the next round of get_device
GetDeviceSleep ==
    /\ pc_ser = "gd_sleep"
    /\ pc_ser' = "get_device"
    /\ UNCHANGED <<present, devices_lock, device_lock, connected_lock, send_rx,
                   last_connected_device, device, devices, port,
                   connected_to_device, h_user_disconnect, h_cfg_name>>
    /\ UNCHANGED <<aggOnlyVars, raw_data_rx, clock>>
    /\ h_open_failed' = FALSE
    /\ UNCHANGED h_io
    /\ UNCHANGED restVars

\* serial.rs:230-246, 256: open() succeeds; t_zero is taken
OpenOk ==
    /\ pc_ser = "open"
    /\ device.name \in present
    /\ port' = device.name
    /\ connected_lock' = TRUE
    /\ clock' = 0
    /\ pc_ser' = "conn_enum"
    /\ UNCHANGED <<present, devices_lock, device_lock, send_rx,
                   last_connected_device, device, devices, connected_to_device,
                   h_user_disconnect, h_cfg_name>>
    /\ UNCHANGED <<aggOnlyVars, raw_data_rx>>
    /\ h_open_failed' = FALSE
    /\ UNCHANGED h_io
    /\ UNCHANGED restVars

\* a variant of OpenErr that leaves the configured name in place
OpenErrKeepsName ==
    /\ pc_ser = "open"
    /\ pc_ser' = "top"
    /\ UNCHANGED <<present, devices_lock, device_lock, connected_lock, send_rx,
                   last_connected_device, device, devices, port,
                   connected_to_device, h_user_disconnect, h_cfg_name>>
    /\ UNCHANGED <<aggOnlyVars, raw_data_rx, clock>>
    /\ h_open_failed' = TRUE
    /\ UNCHANGED h_io
    /\ UNCHANGED restVars

\* serial.rs:230-233, 247-253: open() fails (absent, busy, not permitted)
OpenErr ==
    /\ pc_ser = "open"
    /\ device_lock' = [device_lock EXCEPT !.name = NoName]
    /\ pc_ser' = "top"
    /\ UNCHANGED <<present, devices_lock, connected_lock, send_rx,
                   last_connected_device, device, devices, port,
                   connected_to_device, h_user_disconnect, h_cfg_name>>
    /\ UNCHANGED <<aggOnlyVars, raw_data_rx, clock>>
    /\ h_open_failed' = TRUE
    /\ UNCHANGED h_io
    /\ UNCHANGED restVars

\* serial.rs:266-269: the connected loop enumerates and publishes the list
ConnEnum ==
    /\ pc_ser = "conn_enum"
    /\ devices' = present
    /\ devices_lock' = present
    /\ pc_ser' = "disc_button"
    /\ UNCHANGED <<present, device_lock, connected_lock, send_rx,
                   last_connected_device, device, port, connected_to_device,
                   h_user_disconnect, h_cfg_name>>
    /\ UNCHANGED <<aggOnlyVars, raw_data_rx, clock>>
    /\ h_io' = IoIdle
    /\ UNCHANGED h_open_failed
    /\ UNCHANGED restVars

\* serial.rs:285-287, 299: serialport::available_ports() returns Err in
\* get_device; available_devices unwraps it, the panic ends serial_thread
GetDeviceEnumFails ==
    /\ pc_ser = "get_device"
    /\ pc_ser' = "panicked"
    /\ UNCHANGED <<present, devices_lock, device_lock, connected_lock, send_rx,
                   last_connected_device, device, devices, port,
                   connected_to_device, h_user_disconnect, h_cfg_name>>
    /\ UNCHANGED <<aggOnlyVars, raw_data_rx, clock>>
    /\ UNCHANGED histVars
    /\ UNCHANGED restVars

\* serial.rs:285-287, 266: the same in the connected loop; the port is
\* dropped as the panic unwinds, the connected flag stays set
ConnEnumFails ==
    /\ pc_ser = "conn_enum"
    /\ pc_ser' = "panicked"
    /\ port' = NoPort
    /\ UNCHANGED <<present, devices_lock, device_lock, connected_lock, send_rx,
                   last_connected_device, device, devices,
                   connected_to_device, h_user_disconnect, h_cfg_name>>
    /\ UNCHANGED <<aggOnlyVars, raw_data_rx, clock>>
    /\ UNCHANGED histVars
    /\ UNCHANGED restVars

\* serial.rs:329-336 (and 272, 280): disconnection by button press
DisconnectedButton ==
    /\ pc_ser = "disc_button"
    /\ IF device.name /= device_lock.name
       THEN /\ last_connected_device' = DeviceDefault
            /\ port' = NoPort
            /\ pc_ser' = "top"
       ELSE /\ pc_ser' = "disc_unplug"
            /\ UNCHANGED <<last_connected_device, port>>
    /\ UNCHANGED <<present, devices_lock, device_lock, connected_lock, send_rx,
                   device, devices, connected_to_device, h_user_disconnect,
                   h_cfg_name>>
    /\ UNCHANGED <<aggOnlyVars, raw_data_rx, clock>>
    /\ UNCHANGED histVars
    /\ UNCHANGED restVars

\* a variant of DisconnectedUnplug that does not remember the endpoint
DisconnectedUnplugForgets ==
    /\ pc_ser = "disc_unplug"
    /\ IF device.name \notin devices
       THEN /\ device_lock' = [device_lock EXCEPT !.name = NoName]
            /\ last_connected_device' = DeviceDefault
            /\ port' = NoPort
            /\ pc_ser' = "top"
       ELSE /\ pc_ser' = "writes"
            /\ UNCHANGED <<device_lock, last_connected_device, port>>
    /\ UNCHANGED <<present, devices_lock, connected_lock, send_rx, device,
                   devices, connected_to_device, h_user_disconnect, h_cfg_name>>
    /\ UNCHANGED <<aggOnlyVars, raw_data_rx, clock>>
    /\ UNCHANGED histVars
    /\ UNCHANGED restVars

\* serial.rs:338-347 (and 272, 280): unplugging, power down
DisconnectedUnplug ==
    /\ pc_ser = "disc_unplug"
    /\ IF device.name \notin devices
       THEN /\ device_lock' = [device_lock EXCEPT !.name = NoName]
            /\ last_connected_device' = device
            /\ port' = NoPort
            /\ pc_ser' = "top"
       ELSE /\ pc_ser' = "writes"
            /\ UNCHANGED <<device_lock, last_connected_device, port>>
    /\ UNCHANGED <<present, devices_lock, connected_lock, send_rx, device,
                   devices, connected_to_device, h_user_disconnect, h_cfg_name>>
    /\ UNCHANGED <<aggOnlyVars, raw_data_rx, clock>>
    /\ UNCHANGED histVars
    /\ UNCHANGED restVars

\* serial.rs:386-394, 403-411: the Sent packet of a written command
SentPacket(cmd) ==
    Packet("Send", IF cmd = CtrlcCmd THEN CtrlcText ELSE cmd, clock, 100 + clock)

\* Write::write(cmd) returning Ok(n): the first n bytes have been written
Prefixes(cmd) == {SubSeq(cmd, 1, n) : n \in 0..Len(cmd)}

\* a variant of WriteOutcomes that recognises a sentinel by its text, whatever
\* terminator follows it
WriteOutcomesAnyTerminator(cmd) ==
    IF cmd /= <<>> /\ cmd[1] = ResetCmd[1]
    THEN {[io |-> Io("toggle", TRUE, <<>>), sent |-> FALSE]}
    ELSE IF cmd /= <<>> /\ cmd[1] = CtrlcCmd[1]
    THEN {[io |-> Io("write_ok", FALSE, <<ETX>>), sent |-> TRUE],
          [io |-> Io("write_err", FALSE, <<>>), sent |-> FALSE]}
    ELSE {[io |-> Io("write_ok", FALSE, b), sent |-> TRUE] : b \in Prefixes(cmd)}
            \cup {[io |-> Io("write_err", FALSE, <<>>), sent |-> FALSE]}

\* a variant of WriteOutcomes that knows no sentinel
WriteOutcomesNoSentinel(cmd) ==
    {[io |-> Io("write_ok", FALSE, b), sent |-> TRUE] : b \in Prefixes(cmd)}
        \cup {[io |-> Io("write_err", FALSE, <<>>), sent |-> FALSE]}

\* a variant of WriteOutcomes that reports a Sent event for a failed write too
WriteOutcomesSentOnError(cmd) ==
    IF cmd = ResetCmd
    THEN {[io |-> Io("toggle", TRUE, <<>>), sent |-> FALSE]}
    ELSE IF cmd = CtrlcCmd
    THEN {[io |-> Io("write_ok", FALSE, <<ETX>>), sent |-> TRUE],
          [io |-> Io("write_err", FALSE, <<>>), sent |-> TRUE]}
    ELSE {[io |-> Io("write_ok", FALSE, b), sent |-> TRUE] : b \in Prefixes(cmd)}
            \cup {[io |-> Io("write_err", FALSE, <<>>), sent |-> TRUE]}

\* serial.rs:360-411: what handling a dequeued command can do to the port, and
\* whether a Sent packet follows
WriteOutcomes(cmd) ==
    IF cmd = ResetCmd
    THEN \* serial.rs:360-375: DTR/RTS toggles, nothing is written
         {[io |-> Io("toggle", TRUE, <<>>), sent |-> FALSE]}
    ELSE IF cmd = CtrlcCmd
    THEN \* serial.rs:378-397: write_all(&[0x03])
         {[io |-> Io("write_ok", FALSE, <<ETX>>), sent |-> TRUE],
          [io |-> Io("write_err", FALSE, <<>>), sent |-> FALSE]}
    ELSE \* serial.rs:399-411: serial_write(cmd)
         {[io |-> Io("write_ok", FALSE, b), sent |-> TRUE] : b \in Prefixes(cmd)}
            \cup {[io |-> Io("write_err", FALSE, <<>>), sent |-> FALSE]}

\* a variant of Dequeue that takes the newest command
DequeueNewest(q) ==
    [cmd |-> q[Len(q)], rest |-> SubSeq(q, 1, Len(q) - 1)]

\* a variant of Dequeue that reads the oldest command and leaves it queued
DequeuePeeks(q) == [cmd |-> Head(q), rest |-> q]

\* serial.rs:357: try_recv takes the oldest command off the channel
Dequeue(q) == [cmd |-> Head(q), rest |-> Tail(q)]

\* serial.rs:350-413: at most one queued command is handled
PerformWrites ==
    /\ pc_ser = "writes"
    /\ pc_ser' = "reads"
    /\ IF send_rx = <<>>
       THEN UNCHANGED <<send_rx, raw_data_rx, h_io>>
       ELSE /\ send_rx' = Dequeue(send_rx).rest
            /\ \E o \in WriteOutcomes(Dequeue(send_rx).cmd) :
                  /\ h_io' = o.io
                  /\ IF o.sent
                     THEN /\ Len(raw_data_rx) < MaxQueue
                          /\ raw_data_rx' =
                               Append(raw_data_rx, SentPacket(Dequeue(send_rx).cmd))
                     ELSE UNCHANGED raw_data_rx
    /\ UNCHANGED <<present, devices_lock, device_lock, connected_lock,
                   last_connected_device, device, devices, port,
                   connected_to_device, h_user_disconnect, h_cfg_name>>
    /\ UNCHANGED <<aggOnlyVars, clock>>
    /\ UNCHANGED h_open_failed
    /\ UNCHANGED restVars

\* a variant of ReadOutcomes in which a read error closes the port
ReadOutcomesErrorCloses(bufs) ==
    {[op |-> "read_ok", buf |-> buf, port |-> port] : buf \in bufs}
        \cup {[op |-> "read_timeout", buf |-> <<>>, port |-> port],
              [op |-> "read_err", buf |-> <<>>, port |-> NoPort]}

\* serial.rs:421-438: what one read_line can end with: a buffer (one of
\* bufs), a timeout, or another error, which is logged; the port stays as it is
ReadOutcomes(bufs) ==
    {[op |-> "read_ok", buf |-> buf, port |-> port] : buf \in bufs}
        \cup {[op |-> "read_timeout", buf |-> <<>>, port |-> port],
              [op |-> "read_err", buf |-> <<>>, port |-> port]}

\* serial.rs:415-440: one read_line, one Received packet per line; h_io
\* keeps the buffer that was read
PerformReadsFrom(bufs) ==
    /\ pc_ser = "reads"
    /\ \E r \in ReadOutcomes(bufs) :
          LET lines == IF r.op = "read_ok" THEN Decode(r.buf) ELSE <<>>
          IN /\ (lines = <<>> \/ Len(raw_data_rx) < MaxQueue)
             /\ raw_data_rx' = raw_data_rx \o
                   [i \in 1..Len(lines) |->
                      Packet("Receive", lines[i], clock, 100 + clock)]
             /\ h_io' = Io(r.op, FALSE, r.buf)
             /\ port' = r.port
             /\ pc_ser' = IF r.port = NoPort THEN "top" ELSE "conn_enum"
    /\ UNCHANGED <<present, devices_lock, device_lock, connected_lock, send_rx,
                   last_connected_device, device, devices,
                   connected_to_device, h_user_disconnect, h_cfg_name>>
    /\ UNCHANGED <<aggOnlyVars, clock>>
    /\ UNCHANGED h_open_failed
    /\ UNCHANGED restVars

\* perform_reads against a device that sends the two buffers of Buffers
PerformReads == PerformReadsFrom(Buffers)

\* the position of the first LF of the bytes, 0 if there is none
FirstLF(bytes) ==
    IF \A i \in 1..Len(bytes) : bytes[i] /= LF THEN 0
    ELSE CHOOSE i \in 1..Len(bytes) :
            bytes[i] = LF /\ \A j \in 1..(i - 1) : bytes[j] /= LF

\* serial.rs:103-108, 415-440: one read_line on the bytes that have arrived.
\* read_line moves the bytes into the String buf of perform_reads (420) up
\* to the first LF; when there is none it waits for more and ends with
\* TimedOut after 100 ms (serial.rs:231): perform_reads returns, and what
\* read_line had moved into buf goes with buf. Another error ends read_line
\* before or after it has moved the bytes.
PerformReadsWire ==
    /\ pc_ser = "reads"
    /\ \/ /\ FirstLF(rx_wire) > 0
          /\ LET buf   == SubSeq(rx_wire, 1, FirstLF(rx_wire))
                 lines == Decode(buf)
             IN /\ (lines = <<>> \/ Len(raw_data_rx) < MaxQueue)
                /\ raw_data_rx' = raw_data_rx \o
                      [i \in 1..Len(lines) |->
                         Packet("Receive", lines[i], clock, 100 + clock)]
                /\ h_io' = Io("read_ok", FALSE, buf)
                /\ rx_wire' = SubSeq(rx_wire, FirstLF(rx_wire) + 1, Len(rx_wire))
       \/ /\ FirstLF(rx_wire) = 0
          /\ h_io' = Io("read_timeout", FALSE, <<>>)
          /\ rx_wire' = <<>>
          /\ UNCHANGED raw_data_rx
       \/ /\ h_io' = Io("read_err", FALSE, <<>>)
          /\ rx_wire' \in {rx_wire, <<>>}
          /\ UNCHANGED raw_data_rx
    /\ pc_ser' = "conn_enum"
    /\ UNCHANGED <<present, devices_lock, device_lock, connected_lock, send_rx,
                   last_connected_device, device, devices, port,
                   connected_to_device, h_user_disconnect, h_cfg_name>>
    /\ UNCHANGED <<aggOnlyVars, clock>>
    /\ UNCHANGED h_open_failed
    /\ UNCHANGED <<gui_device, history, index, gui_panicked>>

serial_thread ==
    \/ SerialTop \/ GetDeviceEnum \/ GetDeviceDecide \/ GetDeviceSleep
    \/ OpenOk \/ OpenErr
    \/ ConnEnum \/ DisconnectedButton \/ DisconnectedUnplug
    \/ PerformWrites \/ PerformReads

\* main.rs:111: main_thread takes a packet off the event channel (what it
\* does with it is MainRecv's)
RawDataTaken ==
    /\ raw_data_rx /= <<>>
    /\ raw_data_rx' = Tail(raw_data_rx)
    /\ UNCHANGED <<aggOnlyVars, clock, serVars, histVars>>
    /\ UNCHANGED restVars

----------------------------------------------------------------------------
(* The consumer's connection intents, gui.rs *)

\* gui.rs:1888-1890: update() copies the connected flag
ConsumerRefresh ==
    /\ connected_to_device' = connected_lock
    /\ connected_to_device' /= connected_to_device
    /\ UNCHANGED <<present, devices_lock, device_lock, connected_lock, send_rx,
                   last_connected_device, pc_ser, device, devices, port,
                   h_user_disconnect, h_cfg_name>>
    /\ UNCHANGED <<aggOnlyVars, raw_data_rx, clock>>
    /\ UNCHANGED histVars
    /\ UNCHANGED restVars

\* gui.rs:712-723, the button reads "Connect" with the entry (n, b) of the
\* device history selected: that endpoint is configured and the reset
\* sentinel is queued
ConsumerConnectTo(n, b) ==
    /\ ~connected_to_device
    /\ ~gui_file_opened
    /\ Len(send_rx) < MaxSend
    /\ device_lock' = [name |-> n, baud_rate |-> b]
    /\ h_user_disconnect' = (n = NoName /\ h_user_disconnect)
    /\ send_rx' = Append(send_rx, ResetCmd)
    /\ UNCHANGED <<present, devices_lock, connected_lock,
                   last_connected_device, pc_ser, device, devices, port,
                   connected_to_device, h_cfg_name>>
    /\ UNCHANGED <<aggOnlyVars, raw_data_rx, clock>>
    /\ h_open_failed' = FALSE
    /\ UNCHANGED h_io
    /\ UNCHANGED restVars

\* the link settings the consumer chooses from in the model: those of
\* Device::default(), a set that differs from them in every field, and the
\* set with which serial_thread builds the port
GuiSettings ==
    {[DeviceFullDefault EXCEPT !.name = "A"],
     [name |-> "A", baud_rate |-> 115200, data_bits |-> 7,
      flow_control |-> "Software", parity |-> "Even", stop_bits |-> 2,
      timeout |-> 1000],
     [name |-> "A", baud_rate |-> 115200, data_bits |-> 8,
      flow_control |-> "None", parity |-> "None", stop_bits |-> 1,
      timeout |-> 100]}

\* gui.rs:616-628, 688-706, 735-862: with no session shown as open the
\* consumer selects the endpoint and sets its baud rate, data bits, parity,
\* stop bits, flow control and timeout; here before an endpoint is configured
ConsumerConfigure ==
    /\ ~connected_to_device
    /\ ~gui_file_opened
    /\ device_lock.name = NoName
    /\ \E d \in GuiSettings : gui_device' = d /\ d /= gui_device
    /\ UNCHANGED <<history, index, gui_panicked, rx_wire>>
    /\ UNCHANGED <<aggVars, serVars, histVars>>

\* gui.rs:712-723, "Connect" with the selected entry: its name and its baud
\* rate are written to the configured endpoint
ConsumerConnectSelected ==
    ConsumerConnectTo(gui_device.name, gui_device.baud_rate)

\* serial.rs:230-232: the parameters of a port built with
\* serialport::new(&device.name, device.baud_rate).timeout(100 ms): the
\* builder is given nothing else, so the other parameters are its defaults
LinkInForce(dev) ==
    [baud_rate |-> dev.baud_rate, data_bits |-> 8, flow_control |-> "None",
     parity |-> "None", stop_bits |-> 1, timeout |-> 100]

\* the link parameters of a descriptor of the consumer
LinkConfigured(d) ==
    [baud_rate |-> d.baud_rate, data_bits |-> d.data_bits,
     flow_control |-> d.flow_control, parity |-> d.parity,
     stop_bits |-> d.stop_bits, timeout |-> d.timeout]

\* gui.rs:712-723, "Connect" with any entry of the device history selected
ConsumerConnect ==
    \E n \in Names \cup {NoName}, b \in BaudRates : ConsumerConnectTo(n, b)

\* gui.rs:712-723, the button reads "Disconnect": the interrupt sentinel is
\* queued and the configured name is cleared
ConsumerDisconnect ==
    /\ connected_to_device
    /\ ~gui_file_opened
    /\ Len(send_rx) < MaxSend
    /\ send_rx' = Append(send_rx, CtrlcCmd)
    /\ device_lock' = [device_lock EXCEPT !.name = NoName]
    /\ h_user_disconnect' = (port /= NoPort \/ h_user_disconnect)
    /\ UNCHANGED <<present, devices_lock, connected_lock,
                   last_connected_device, pc_ser, device, devices, port,
                   connected_to_device, h_cfg_name>>
    /\ UNCHANGED <<aggOnlyVars, raw_data_rx, clock>>
    /\ UNCHANGED histVars
    /\ UNCHANGED restVars

\* what the consumer types into the command line in the model
TypedTexts == {<<"ls">>, <<"__RESET__">>, <<"__CTRLC__">>}

\* gui.rs:553: the end-of-line strings the consumer has configured in the model
\* (the field is free text; "\\r\\n" is its default)
Eols == {<<CR, LF>>, <<LF>>}

\* gui.rs:549-559, Send or Enter: the typed command and the configured
\* end-of-line string are queued as one command (the command history is the
\* consumer's own and is followed in ConsumerSendKept)
ConsumerType(text, eol) ==
    /\ Len(send_rx) < MaxTyped
    /\ send_rx' = Append(send_rx, text \o eol)
    /\ UNCHANGED <<present, devices_lock, device_lock, connected_lock,
                   last_connected_device, pc_ser, device, devices, port,
                   connected_to_device, h_user_disconnect, h_cfg_name>>
    /\ UNCHANGED <<aggOnlyVars, raw_data_rx, clock>>
    /\ UNCHANGED histVars
    /\ UNCHANGED restVars

\* the consumer sends any of the texts with any of the end-of-line strings
ConsumerSend == \E text \in TypedTexts, eol \in Eols : ConsumerType(text, eol)

----------------------------------------------------------------------------
(* The environment of serial_thread *)

\* the endpoint n is attached
Attach(n) ==
    /\ n \notin present
    /\ present' = present \cup {n}
    /\ UNCHANGED <<devices_lock, device_lock, connected_lock, send_rx,
                   last_connected_device, pc_ser, device, devices, port,
                   connected_to_device, h_user_disconnect, h_cfg_name>>
    /\ UNCHANGED <<aggOnlyVars, raw_data_rx, clock>>
    /\ UNCHANGED histVars
    /\ UNCHANGED restVars

\* what the device of the model sends in one piece: the start of a line, or
\* its end
DeviceChunks == {<<"1">>, <<"2", CR, LF>>}

\* the device of the open port sends a piece; it arrives at the port
DeviceSends ==
    /\ port /= NoPort
    /\ \E c \in DeviceChunks :
          /\ Len(rx_wire) + Len(c) <= MaxWire
          /\ rx_wire' = rx_wire \o c
    /\ UNCHANGED <<gui_device, history, index, gui_panicked>>
    /\ UNCHANGED <<aggVars, serVars, histVars>>

\* an endpoint is attached
Plug == \E n \in Names : Attach(n)

\* an endpoint is detached or powered down
Unplug ==
    /\ \E n \in present : present' = present \ {n}
    /\ UNCHANGED <<devices_lock, device_lock, connected_lock, send_rx,
                   last_connected_device, pc_ser, device, devices, port,
                   connected_to_device, h_user_disconnect, h_cfg_name>>
    /\ UNCHANGED <<aggOnlyVars, raw_data_rx, clock>>
    /\ UNCHANGED histVars
    /\ UNCHANGED restVars

\* serial.rs:256, 387, 404, 426: a millisecond of the session passes;
\* Instant::now().duration_since(t_zero) is read off a monotonic clock
Tick ==
    /\ port /= NoPort
    /\ clock < MaxTime
    /\ clock' = clock + 1
    /\ UNCHANGED <<aggOnlyVars, raw_data_rx, serVars, histVars>>
    /\ UNCHANGED restVars

\* main.rs:110-178 while the raw-event log has room in the model
MainRecvUpTo ==
    /\ MainRecv
    /\ Len(data'.raw_traffic) <= MaxLog

----------------------------------------------------------------------------
(* Specifications *)

Init ==
    /\ data = DataContainerDefault
    /\ failed_format_counter = 0
    /\ file_opened = FALSE
    /\ pc_main = "clear"
    /\ data_lock = DataContainerDefault
    /\ raw_data_rx = <<>>
    /\ clear_rx = <<>>
    /\ load_rx = <<>>
    /\ save_rx = <<>>
    /\ load_names_rx = <<>>
    /\ gui_file_opened = FALSE
    /\ clock = 0
    /\ h_file_mode = FALSE
    /\ h_logged = "none"
    /\ present = {}
    /\ devices_lock = {NoName}
    /\ device_lock = DeviceDefault
    /\ connected_lock = FALSE
    /\ send_rx = <<>>
    /\ last_connected_device = DeviceDefault
    /\ pc_ser = "top"
    /\ device = DeviceDefault
    /\ devices = {}
    /\ port = NoPort
    /\ connected_to_device = FALSE
    /\ h_user_disconnect = FALSE
    /\ h_cfg_name = NoName
    /\ h_open_failed = FALSE
    /\ h_io = IoIdle
    /\ gui_device = DeviceFullDefault
    /\ history = <<>>
    /\ index = 0
    /\ gui_panicked = FALSE
    /\ rx_wire = <<>>

\* the aggregator against its producer and the consumer's clear and save
\* requests
NextAgg ==
    \/ MainClear \/ MainRecv \/ MainLoad \/ MainPublish \/ MainSave
    \/ ConsumerClear \/ ConsumerSave
    \/ Feed

SpecAgg == Init /\ [][NextAgg]_vars

\* the aggregator against a device that changes the width of its frames
NextTol ==
    \/ MainClear \/ MainRecv \/ MainLoad \/ MainPublish \/ MainSave
    \/ FeedDeep

SpecTol == Init /\ [][NextTol]_vars

\* the aggregator against a device whose format changes for good
NextDrift ==
    \/ MainClear \/ MainRecv \/ MainLoad \/ MainPublish \/ MainSave
    \/ FeedDrift

SpecDrift == Init /\ [][NextDrift]_vars

\* the aggregator against the consumer's file requests
NextFile ==
    \/ MainClear \/ MainRecv \/ MainLoad \/ MainPublish \/ MainSave
    \/ ConsumerClear \/ ConsumerLoad \/ ConsumerCloseFile \/ ConsumerNames
    \/ FeedFile

SpecFile == Init /\ [][NextFile]_vars

\* the same with a main_thread that keeps running (its loop never blocks for
\* more than its receive timeouts, main.rs:103-234) and a consumer whose
\* update() keeps being called (gui.rs:387-397); the consumer's clicks are
\* under no obligation
SpecFileFair ==
    /\ SpecFile
    /\ WF_vars(MainClear) /\ WF_vars(MainRecv) /\ WF_vars(MainLoad)
    /\ WF_vars(MainPublish) /\ WF_vars(MainSave)
    /\ WF_vars(ConsumerNames)

\* serial_thread against the consumer's connection intents and the endpoints
\* that come and go
NextConn ==
    \/ SerialTop \/ GetDeviceEnum \/ GetDeviceDecide \/ GetDeviceSleep
    \/ OpenOk \/ OpenErr
    \/ ConnEnum \/ DisconnectedButton \/ DisconnectedUnplug
    \/ PerformWrites \/ PerformReads
    \/ RawDataTaken
    \/ ConsumerRefresh \/ ConsumerConnect \/ ConsumerDisconnect
    \/ Plug \/ Unplug

SpecConn == Init /\ [][NextConn]_vars

\* the I/O worker against the commands the consumer sends: endpoint A is
\* attached and stays, the consumer connects to it and types commands
NextIO ==
    \/ SerialTop \/ GetDeviceEnum \/ GetDeviceDecide \/ GetDeviceSleep
    \/ OpenOk \/ OpenErr
    \/ ConnEnum \/ DisconnectedButton \/ DisconnectedUnplug
    \/ PerformWrites \/ PerformReads
    \/ RawDataTaken
    \/ ConsumerRefresh \/ ConsumerConnectTo("A", 115200) \/ ConsumerSend
    \/ Attach("A")

SpecIO == Init /\ [][NextIO]_vars

\* the worker and the aggregator together, while time passes: endpoint A is
\* attached, detached and attached again, the consumer connects to it and
\* sends a command
NextPipe ==
    \/ SerialTop \/ GetDeviceEnum \/ GetDeviceDecide \/ GetDeviceSleep
    \/ OpenOk \/ OpenErr
    \/ ConnEnum \/ DisconnectedButton \/ DisconnectedUnplug
    \/ PerformWrites \/ PerformReads
    \/ Tick
    \/ MainClear \/ MainRecvUpTo \/ MainLoad \/ MainPublish \/ MainSave
    \/ ConsumerConnectTo("A", 115200) \/ ConsumerType(<<"ls">>, <<CR, LF>>)
    \/ Attach("A") \/ Unplug

SpecPipe == Init /\ [][NextPipe]_vars

\* the worker and the aggregator together while the consumer clears the data:
\* endpoint A is attached and stays, the consumer connects to it
NextLive ==
    \/ SerialTop \/ GetDeviceEnum \/ GetDeviceDecide \/ GetDeviceSleep
    \/ OpenOk \/ OpenErr
    \/ ConnEnum \/ DisconnectedButton \/ DisconnectedUnplug
    \/ PerformWrites \/ PerformReads
    \/ MainClear \/ MainRecvUpTo \/ MainLoad \/ MainPublish \/ MainSave
    \/ ConsumerClear
    \/ ConsumerConnectTo("A", 115200)
    \/ Attach("A")

SpecLive == Init /\ [][NextLive]_vars

\* the I/O worker against a device that sends any buffer of DecodeBuffers:
\* endpoint A is attached and stays, the consumer connects to it
NextDecode ==
    \/ SerialTop \/ GetDeviceEnum \/ GetDeviceDecide \/ GetDeviceSleep
    \/ OpenOk \/ OpenErr
    \/ ConnEnum \/ DisconnectedButton \/ DisconnectedUnplug
    \/ PerformWrites \/ PerformReadsFrom(DecodeBuffers)
    \/ RawDataTaken
    \/ ConsumerConnectTo("A", 115200)
    \/ Attach("A")

SpecDecode == Init /\ [][NextDecode]_vars

\* the connection manager against a consumer that sets the link parameters
\* of endpoint A and then connects to it
NextLink ==
    \/ SerialTop \/ GetDeviceEnum \/ GetDeviceDecide \/ GetDeviceSleep
    \/ OpenOk \/ OpenErr
    \/ ConnEnum \/ DisconnectedButton \/ DisconnectedUnplug
    \/ PerformWrites \/ PerformReads
    \/ RawDataTaken
    \/ ConsumerRefresh \/ ConsumerConfigure \/ ConsumerConnectSelected
    \/ Attach("A")

SpecLink == Init /\ [][NextLink]_vars

\* the connection manager on a machine whose enumeration of the endpoints
\* can fail: endpoint A is attached, the consumer connects to it
NextEnum ==
    \/ SerialTop \/ GetDeviceEnum \/ GetDeviceDecide \/ GetDeviceSleep
    \/ OpenOk \/ OpenErr
    \/ ConnEnum \/ DisconnectedButton \/ DisconnectedUnplug
    \/ PerformWrites \/ PerformReads
    \/ GetDeviceEnumFails \/ ConnEnumFails
    \/ RawDataTaken
    \/ ConsumerRefresh \/ ConsumerConnectTo("A", 115200)
    \/ Attach("A")

SpecEnum == Init /\ [][NextEnum]_vars

\* the I/O worker against a device whose bytes arrive piece by piece:
\* endpoint A is attached and stays, the consumer connects to it
NextWire ==
    \/ SerialTop \/ GetDeviceEnum \/ GetDeviceDecide \/ GetDeviceSleep
    \/ OpenOk \/ OpenErr
    \/ ConnEnum \/ DisconnectedButton \/ DisconnectedUnplug
    \/ PerformWrites \/ PerformReadsWire
    \/ DeviceSends
    \/ RawDataTaken
    \/ ConsumerConnectTo("A", 115200)
    \/ Attach("A")

SpecWire == Init /\ [][NextWire]_vars

\* the payloads of at most n characters over two digits, a letter, the two
\* separators and the blank
RECURSIVE PayloadsUpTo(_)
PayloadsUpTo(n) ==
    IF n = 0 THEN {<<>>}
    ELSE LET shorter == PayloadsUpTo(n - 1)
         IN shorter \cup
              {Append(b, a) : b \in {x \in shorter : Len(x) = n - 1},
                              a \in {"1", "2", "x", ",", ":", " "}}

\* the aggregator starts with two frames of one device waiting on the event
\* channel, both with the same payload of at most MaxLen characters: the
\* first fixes the width, the second is the first row
InitSplit ==
    /\ data = DataContainerDefault
    /\ failed_format_counter = 0
    /\ file_opened = FALSE
    /\ pc_main = "clear"
    /\ data_lock = DataContainerDefault
    /\ raw_data_rx \in {<<Packet("Receive", pl, 0, 100),
                           Packet("Receive", pl, 1, 101)>> :
                           pl \in PayloadsUpTo(MaxLen)}
    /\ clear_rx = <<>>
    /\ load_rx = <<>>
    /\ save_rx = <<>>
    /\ load_names_rx = <<>>
    /\ gui_file_opened = FALSE
    /\ clock = 2
    /\ h_file_mode = FALSE
    /\ h_logged = "none"
    /\ present = {}
    /\ devices_lock = {NoName}
    /\ device_lock = DeviceDefault
    /\ connected_lock = FALSE
    /\ send_rx = <<>>
    /\ last_connected_device = DeviceDefault
    /\ pc_ser = "top"
    /\ device = DeviceDefault
    /\ devices = {}
    /\ port = NoPort
    /\ connected_to_device = FALSE
    /\ h_user_disconnect = FALSE
    /\ h_cfg_name = NoName
    /\ h_open_failed = FALSE
    /\ h_io = IoIdle
    /\ gui_device = DeviceFullDefault
    /\ history = <<>>
    /\ index = 0
    /\ gui_panicked = FALSE
    /\ rx_wire = <<>>

\* main_thread alone, working off the two frames
NextSplit == MainClear \/ MainRecv \/ MainLoad \/ MainPublish \/ MainSave

SpecSplit == InitSplit /\ [][NextSplit]_vars

----------------------------------------------------------------------------
(* Properties of the aggregator *)

\* the MainRecv step takes the packet at the head of the event channel
TakesPacket ==
    /\ pc_main = "recv" /\ pc_main' = "load"
    /\ ~file_opened /\ raw_data_rx /= <<>>

\* the packet taken has a non-empty payload whose token count differs from the
\* width of the current format epoch
Mismatch(packet) ==
    /\ packet.payload /= <<>>
    /\ Len(data.dataset) > 0
    /\ Len(split(packet.payload)) /= Len(data.dataset)

\* every packet of the log is a Received frame of exactly w numeric tokens
AllWidth(log, w) ==
    \A i \in 1..Len(log) :
        log[i].direction = "Receive" /\ Len(split(log[i].payload)) = w

\* the last n packets of the log carry the payload pl
LastAre(log, n, pl) ==
    /\ Len(log) >= n
    /\ \A i \in (Len(log) - n + 1)..Len(log) : log[i].payload = pl

C2_Tolerance ==
    [][(TakesPacket /\ Mismatch(Head(raw_data_rx))
            /\ failed_format_counter < FormatThreshold) =>
         /\ failed_format_counter' = failed_format_counter + 1
         /\ data'.dataset = data.dataset
         /\ data'.time = data.time
         /\ data'.absolute_time = data.absolute_time
         /\ data'.raw_traffic = Append(data.raw_traffic, Head(raw_data_rx))]_vars

\* an epoch of width 2 with one row has seen 10 consecutive one-number frames
C2_Witness ==
    /\ failed_format_counter = FormatThreshold
    /\ Len(data.dataset) = 2
    /\ Len(data.time) = 1
    /\ Len(data.dataset[1]) = 1
    /\ LastAre(data.raw_traffic, FormatThreshold, P_7)
    /\ Len(data.raw_traffic) = FormatThreshold + 2

\* C3 as claimed: with the counter at 10, the 11th consecutive malformed-width
\* frame re-creates the columns at the width derived from that frame and
\* restarts the counter at zero.
C3_EleventhResets ==
    [][(TakesPacket /\ Mismatch(Head(raw_data_rx))
            /\ failed_format_counter = FormatThreshold) =>
         /\ data'.dataset = NewColumns(split(Head(raw_data_rx).payload))
         /\ failed_format_counter' = 0]_vars

\* C3 amended: with the counter at 10, the 11th consecutive malformed-width
\* frame only raises the counter to 11 and leaves the columns as they were; the
\* next frame with a non-empty payload taken after that (the 12th), whatever
\* its width, re-creates the columns at max(its token count, 1) and restarts
\* the counter at zero.
C3_TwelfthResets ==
    [][/\ (TakesPacket /\ Mismatch(Head(raw_data_rx))
              /\ failed_format_counter = FormatThreshold) =>
            /\ failed_format_counter' = FormatThreshold + 1
            /\ data'.dataset = data.dataset
       /\ (TakesPacket /\ Head(raw_data_rx).payload /= <<>>
              /\ failed_format_counter > FormatThreshold) =>
            /\ data'.dataset = NewColumns(split(Head(raw_data_rx).payload))
            /\ failed_format_counter' = 0]_vars

\* after two frames of two numbers, the 12th one-number frame has just
\* re-created the dataset as one empty column
C3_Witness ==
    /\ Len(data.raw_traffic) = FormatThreshold + 4
    /\ LastAre(data.raw_traffic, FormatThreshold + 2, P_7)
    /\ data.raw_traffic[1].payload = P_12 /\ data.raw_traffic[2].payload = P_12
    /\ data.dataset = << <<>> >>
    /\ failed_format_counter = 0

C5_SnapshotAligned ==
    \A i \in 1..Len(data_lock.dataset) :
        Len(data_lock.dataset[i]) = Len(data_lock.time)

C7_IngestionSuspended == [][h_file_mode => ~TakesPacket]_vars

\* C8: reconnection preference. When get_device has decided with both the
\* remembered endpoint and a different configured endpoint in the enumerated
\* set, the endpoint it hands to open() is the remembered one, name and speed,
\* and the port that is opened is that endpoint's.
C8_ReconnectionPreference ==
    /\ ( /\ pc_ser = "open"
         /\ last_connected_device.name \in devices
         /\ h_cfg_name \in devices
         /\ h_cfg_name /= last_connected_device.name )
       => device = last_connected_device
    /\ port /= NoPort => port = device.name

\* C8 witness: a session on the remembered endpoint A, opened while the
\* consumer had configured B and both were enumerated.
C8_Witness ==
    /\ port = "A"
    /\ pc_ser = "conn_enum"
    /\ h_cfg_name = "B"
    /\ last_connected_device.name = "A"
    /\ devices = {"A", "B"}

\* C9: after an explicit disconnect (the consumer cleared the configured name
\* during an open session and has set none since), once the session is over
\* the reconnection memory is empty and no open is attempted.
C9_NoAutoReconnect ==
    (h_user_disconnect /\ port = NoPort)
        => (last_connected_device.name = NoName /\ pc_ser /= "open")

\* C10: physical disconnect. A session that ends with its endpoint missing
\* from the enumeration while the configured name is still the session's
\* leaves the configured name empty and the session's descriptor in the
\* reconnection memory; the memory is kept while no session is open; when
\* get_device decides with the remembered endpoint enumerated it goes on to
\* open that endpoint; and the port opened is the endpoint decided on.
C10_PhysicalDisconnect ==
    [][ /\ ( /\ port /= NoPort
             /\ port' = NoPort
             /\ device.name \notin devices
             /\ device_lock.name = device.name )
           => ( /\ device_lock'.name = NoName
                /\ last_connected_device' = device )
        /\ (port = NoPort /\ port' = NoPort)
           => last_connected_device' = last_connected_device
        /\ ( /\ pc_ser = "gd_decide"
             /\ pc_ser' /= "gd_decide"
             /\ last_connected_device.name \in devices )
           => ( /\ pc_ser' = "open"
                /\ device' = last_connected_device )
        /\ (port = NoPort /\ port' /= NoPort) => port' = device.name
      ]_vars

\* C10 witness: a session on A reopened from the reconnection memory, which
\* only a physical disconnect of A fills.
C10_Witness ==
    /\ port = "A"
    /\ connected_lock
    /\ last_connected_device.name = "A"
    /\ device_lock.name = "A"
    /\ h_cfg_name = NoName

----------------------------------------------------------------------------
(* Properties of the connection manager *)

\* the manager is looking for an endpoint or about to open one
Searching == pc_ser \in {"get_device", "gd_decide", "gd_sleep", "open"}

\* C11: the connected flag is false in every Searching state, the open attempt
\* included, and it is true in every state in which a port is open (a
\* successful open sets it, and nothing clears it during the session).
C11_ConnectedFlag ==
    /\ Searching => ~connected_lock
    /\ port /= NoPort => connected_lock

\* C11 witness: the manager is searching again, flag false, after a session
\* on A that raised the flag and ended by a physical disconnect
C11_Witness ==
    /\ pc_ser = "get_device"
    /\ ~connected_lock
    /\ last_connected_device.name = "A"
    /\ port = NoPort

\* C12: a failed open clears the configured name, leaves the connected flag
\* false, opens no port, keeps the reconnection memory and takes the manager
\* back to the head of its loop, from where its next step is always possible.
C12_OpenFailure ==
    [][ /\ (pc_ser = "open" /\ pc_ser' /= "open" /\ port' = NoPort)
           => ( /\ device_lock'.name = NoName
                /\ ~connected_lock'
                /\ pc_ser' = "top"
                /\ last_connected_device' = last_connected_device )
        /\ pc_ser = "top" => ENABLED SerialTop
      ]_vars

\* C12 witness: the open of A has just failed
C12_Witness ==
    /\ pc_ser = "top"
    /\ ~connected_lock
    /\ device.name = "A"
    /\ device_lock.name = NoName
    /\ port = NoPort

\* C20: at every open attempt the endpoint handed to open() is named in the
\* enumeration get_device read last, and that enumeration is the one it
\* published.
C20_OpenOnlyEnumerated ==
    pc_ser = "open" => (device.name \in devices /\ devices_lock = devices)

\* C20 witness: B is about to be opened while both endpoints are enumerated
\* and nothing is remembered
C20_Witness ==
    /\ pc_ser = "open"
    /\ device.name = "B"
    /\ devices = {"A", "B"}
    /\ last_connected_device = DeviceDefault

\* C13 as claimed: no open is attempted after a failed open unless the manager
\* has slept in between (or an open succeeded, or the consumer configured an
\* endpoint, since the failure).
C13_YieldBetweenAttempts == pc_ser = "open" => ~h_open_failed

----------------------------------------------------------------------------
(* Properties of the I/O worker *)

\* the step is perform_writes handling the command at the head of the channel
HandlesCommand ==
    pc_ser = "writes" /\ pc_ser' = "reads" /\ send_rx /= <<>>

\* the step appends exactly the packet p to the event channel
Emits(p) == raw_data_rx' = Append(raw_data_rx, p)

\* the step appends nothing to the event channel
EmitsNothing == raw_data_rx' = raw_data_rx

\* C14: sentinel exclusion. When the reset sentinel is handled, the control
\* lines are toggled, no byte is put on the wire and no event is emitted. When
\* the interrupt sentinel is handled, either the single byte 0x03 is written
\* and one Sent event with the synthetic payload is emitted, or the write
\* fails and nothing is written or emitted. In no case are the sentinel's
\* characters written, or reported as a payload.
C14_SentinelExclusion ==
    [][ (HandlesCommand /\ Head(send_rx) \in {ResetCmd, CtrlcCmd}) =>
          /\ h_io'.bytes \in {<<>>, <<ETX>>}
          /\ \A i \in 1..Len(raw_data_rx') :
                 raw_data_rx'[i].payload \notin {ResetCmd, CtrlcCmd}
          /\ Head(send_rx) = ResetCmd =>
                (h_io' = Io("toggle", TRUE, <<>>) /\ EmitsNothing)
          /\ Head(send_rx) = CtrlcCmd =>
                \/ /\ h_io' = Io("write_ok", FALSE, <<ETX>>)
                   /\ Emits(Packet("Send", CtrlcText, clock, 100 + clock))
                \/ /\ h_io' = Io("write_err", FALSE, <<>>)
                   /\ EmitsNothing
      ]_vars

\* C14 witness: the interrupt sentinel has just been handled: one byte on the
\* wire, the synthetic Sent event on the channel
C14_Witness ==
    /\ pc_ser = "reads"
    /\ h_io = Io("write_ok", FALSE, <<ETX>>)
    /\ raw_data_rx /= <<>>
    /\ raw_data_rx[Len(raw_data_rx)].payload = CtrlcText
    /\ raw_data_rx[Len(raw_data_rx)].direction = "Send"

\* the sentinel texts followed by any end-of-line string of the model
SentinelLike ==
    {text \o eol : text \in {<<ResetCmd[1]>>, <<CtrlcCmd[1]>>}, eol \in Eols}

\* C15 as claimed: a command made of a sentinel text and whatever end-of-line
\* string is configured is intercepted: none of its characters are written and
\* it is not reported as a Sent payload.
C15_AnyTerminatorIntercepted ==
    [][ (HandlesCommand /\ Head(send_rx) \in SentinelLike) =>
          /\ h_io'.bytes \in {<<>>, <<ETX>>}
          /\ ~Emits(Packet("Send", Head(send_rx), clock, 100 + clock))
      ]_vars

\* C15 amended: a command is intercepted exactly when it is a sentinel text
\* followed by CR LF; a sentinel text followed by another end-of-line string
\* is handled as an ordinary command: its bytes are written and, when the
\* write succeeds, it is reported verbatim as a Sent payload.
C15_InterceptedOnlyWithCRLF ==
    [][ (HandlesCommand /\ Head(send_rx) \in SentinelLike) =>
          IF Head(send_rx) \in {ResetCmd, CtrlcCmd}
          THEN /\ h_io'.bytes \in {<<>>, <<ETX>>}
               /\ ~Emits(Packet("Send", Head(send_rx), clock, 100 + clock))
          ELSE \/ /\ h_io'.op = "write_ok"
                  /\ h_io'.bytes \in Prefixes(Head(send_rx))
                  /\ Emits(Packet("Send", Head(send_rx), clock, 100 + clock))
               \/ /\ h_io' = Io("write_err", FALSE, <<>>)
                  /\ EmitsNothing
      ]_vars

\* C15 witness: the reset text followed by a bare LF has been written to the
\* port in full and reported as a Sent event
C15_Witness ==
    /\ pc_ser = "reads"
    /\ h_io = Io("write_ok", FALSE, <<ResetCmd[1], LF>>)
    /\ raw_data_rx /= <<>>
    /\ raw_data_rx[Len(raw_data_rx)].payload = <<ResetCmd[1], LF>>

\* the step is perform_reads
Reads == pc_ser = "reads" /\ pc_ser' /= "reads"

\* C17: every perform_reads step leaves the port open, the connected flag
\* true, the configured name and the reconnection memory as they were, and
\* hands over to the next cycle; when the read ended in a timeout or in
\* another error, the step emits no event.
C17_ReadFailureKeepsSession ==
    [][ Reads =>
          /\ port /= NoPort
          /\ port' = port
          /\ connected_lock /\ connected_lock'
          /\ pc_ser' = "conn_enum"
          /\ device_lock' = device_lock
          /\ last_connected_device' = last_connected_device
          /\ h_io'.op \in {"read_ok", "read_timeout", "read_err"}
          /\ h_io'.op \in {"read_timeout", "read_err"} => EmitsNothing
      ]_vars

\* C17 witness: a read has just ended in an error other than a timeout; the
\* session on A is open and the next cycle is about to start
C17_Witness ==
    /\ pc_ser = "conn_enum"
    /\ h_io.op = "read_err"
    /\ port = "A"
    /\ connected_lock

\* C18: when a command is handled, a Sent event is emitted only together with
\* a successful write; a failed write puts nothing on the wire, emits nothing,
\* removes the command from the channel and leaves the session open and the
\* worker on its way to the read of the same cycle.
C18_SentOnlyIfWritten ==
    [][ HandlesCommand =>
          /\ ~EmitsNothing =>
                /\ h_io'.op = "write_ok"
                /\ Emits(SentPacket(Head(send_rx)))
                /\ raw_data_rx'[Len(raw_data_rx')].direction = "Send"
          /\ h_io'.op = "write_err" =>
                /\ EmitsNothing
                /\ h_io'.bytes = <<>>
          /\ send_rx' = Tail(send_rx)
          /\ port' = port /\ port /= NoPort
          /\ connected_lock'
      ]_vars

\* C18 witness: the write of an ordinary command has just failed: the command
\* is gone, nothing was emitted, the session on A is open
C18_Witness ==
    /\ pc_ser = "reads"
    /\ h_io = Io("write_err", FALSE, <<>>)
    /\ send_rx = <<>>
    /\ raw_data_rx = <<>>
    /\ port = "A"

\* C19: the command channel is a queue that only perform_writes takes from:
\* in every step it stays as it is, loses its head (in a perform_writes step,
\* once per cycle, and the command handled is that head) or gains one command
\* at its tail; with nothing queued perform_writes does not wait.
C19_OneCommandPerCycleInOrder ==
    [][ /\ \/ send_rx' = send_rx
           \/ /\ HandlesCommand
              /\ send_rx' = Tail(send_rx)
              /\ ~EmitsNothing => Emits(SentPacket(Head(send_rx)))
           \/ /\ Len(send_rx') = Len(send_rx) + 1
              /\ SubSeq(send_rx', 1, Len(send_rx)) = send_rx
              /\ pc_ser' = pc_ser
        /\ (pc_ser = "writes" /\ send_rx = <<>>) => ENABLED PerformWrites
      ]_vars

\* C19 witness: of two different commands queued, the older one has been
\* written and reported, the newer one is still waiting
C19_Witness ==
    /\ pc_ser = "reads"
    /\ Len(send_rx) = 1
    /\ h_io.op = "write_ok"
    /\ raw_data_rx /= <<>>
    /\ raw_data_rx[Len(raw_data_rx)].direction = "Send"
    /\ raw_data_rx[Len(raw_data_rx)].payload /= send_rx[1]

----------------------------------------------------------------------------
(* Properties of the path from the worker to the raw-event log *)

\* the packets of q that the aggregator logs (main.rs:113: an empty payload is
\* skipped)
Logged(q) == SelectSeq(q, LAMBDA p : p.payload /= <<>>)

\* the events logged so far followed by those on their way to the log
Stream == data.raw_traffic \o Logged(raw_data_rx)

\* the step belongs to serial_thread and stays within one session
InSession == port /= NoPort /\ port' = port

\* C16: the events logged and those on their way to the log form one sequence
\* that only grows at its tail, by the events the worker emits, in the order
\* of emission; the aggregator's steps move events from the channel to the log
\* without changing that sequence. Every emitted event carries the session's
\* clock at the time of its emission, the clock never goes back while the
\* session lasts, so the events one step emits, and the events of successive
\* steps of one session, are non-decreasing in relative time. A successful
\* open starts the session's clock at zero.
C16_OrderAndSessionTime ==
    [][ /\ Len(Stream') >= Len(Stream)
        /\ SubSeq(Stream', 1, Len(Stream)) = Stream
        /\ pc_main' /= pc_main => Stream' = Stream
        /\ Len(raw_data_rx') >= Len(raw_data_rx) =>
              SubSeq(raw_data_rx', 1, Len(raw_data_rx)) = raw_data_rx
        /\ \A i \in (Len(raw_data_rx) + 1)..Len(raw_data_rx') :
              /\ InSession
              /\ raw_data_rx'[i].relative_time = clock
              /\ clock' = clock
        /\ InSession => clock' >= clock
        /\ (port = NoPort /\ port' /= NoPort) => clock' = 0
      ]_vars

\* C16 witness: a first session logged an event at time 1; the endpoint came
\* back, the second session emitted an event at time 0, which is logged after
\* it, and then one at time 1, which is on its way to the log
C16_Witness ==
    /\ port /= NoPort
    /\ Len(data.raw_traffic) = 2
    /\ data.raw_traffic[1].relative_time = 1
    /\ data.raw_traffic[2].relative_time = 0
    /\ Logged(raw_data_rx) /= <<>>
    /\ Logged(raw_data_rx)[1].relative_time = 1

----------------------------------------------------------------------------
(* Properties of the session's end and of the port handle *)

----------------------------------------------------------------------------
(* Properties of the load requests *)

\* the step is main_thread's handling of the load request fp
Loads(fp) ==
    pc_main = "load" /\ pc_main' /= "load" /\ load_rx /= <<>> /\ Head(load_rx) = fp

\* C22: the step that handles a load request whose extension is neither csv
\* nor absent takes the request off the channel and leaves the dataset (time
\* axes, columns, raw log, origin mark) and the malformed-frame counter as they
\* were, announces no column names, leaves the suspension flag false and goes
\* back to the head of the loop.
C22_UnsupportedExtensionRejected ==
    [][ Loads(TxtFile) =>
          /\ data' = data
          /\ failed_format_counter' = failed_format_counter
          /\ load_names_rx' = load_names_rx
          /\ ~file_opened'
          /\ load_rx' = Tail(load_rx)
          /\ pc_main' = "clear"
      ]_vars

\* C22 witness: a request for a .txt file has just been rejected in a loop
\* iteration that had ingested a frame: the dataset holds a row that the
\* published snapshot does not have yet
C22_Witness ==
    /\ pc_main = "clear"
    /\ ~file_opened
    /\ load_rx = <<>>
    /\ Len(data.time) = 1
    /\ data_lock /= data
    /\ load_names_rx = <<>>

LoadsPicked ==
    pc_main = "load" /\ pc_main' /= "load" /\ load_rx /= <<>>
        /\ Head(load_rx) \in Paths

\* C24 as claimed: every load request for a picked file either ends in a load,
\* announced by the file's column names, or is reported as failed by an error
\* record; none is dropped silently.
C24_NoFailureSilentlyDropped ==
    [][ LoadsPicked =>
          \/ /\ data'.loaded_from_file
             /\ load_names_rx' = Append(load_names_rx, Head(load_rx).names)
          \/ h_logged' /= "none"
      ]_vars

----------------------------------------------------------------------------
(* Properties of the clear command *)

\* the step is main_thread's processing of a clear command
ProcessesClear ==
    pc_main = "clear" /\ pc_main' = "recv" /\ clear_rx /= <<>> /\ Head(clear_rx)

\* the step is the consumer's queueing of a clear command
RequestsClear == clear_rx' = Append(clear_rx, TRUE)

\* C25: neither the consumer's clear request nor main_thread's processing of
\* it changes anything of the connection: the manager's position and its
\* session endpoint, the open port, the configured endpoint, the reconnection
\* memory, the connected flag and the command channel stay as they were.
C25_ClearKeepsConnection ==
    [][ (ProcessesClear \/ RequestsClear) =>
          /\ pc_ser' = pc_ser
          /\ port' = port
          /\ device' = device
          /\ device_lock' = device_lock
          /\ last_connected_device' = last_connected_device
          /\ connected_lock' = connected_lock
          /\ send_rx' = send_rx
      ]_vars

\* C25 witness: a clear command has just been processed during a session on A
\* with a command waiting: the dataset is empty while the snapshot published
\* before still shows an event of the session
C25_Witness ==
    /\ pc_main = "recv"
    /\ clear_rx = <<>>
    /\ data = DataContainerDefault
    /\ data_lock.raw_traffic /= <<>>
    /\ port = "A"
    /\ connected_lock
    /\ device_lock.name = "A"
    /\ send_rx /= <<>>

----------------------------------------------------------------------------
(* Properties of the malformed-frame counter and of the parsing *)

\* the number of packets of the log that carry the payload pl
CountOf(log, pl) == Cardinality({i \in 1..Len(log) : log[i].payload = pl})

\* column by column, new holds old followed by at most one more value
ExtendsRows(old, new) ==
    /\ Len(new) = Len(old)
    /\ \A i \in 1..Len(old) :
          /\ Len(new[i]) \in {Len(old[i]), Len(old[i]) + 1}
          /\ SubSeq(new[i], 1, Len(old[i])) = old[i]

\* C26: within a format epoch a frame of the epoch's width puts the counter
\* back to zero and a frame of another width raises it by one, so the counter
\* is the length of the current run of mismatching frames; and as long as the
\* counter has not gone beyond 10, no frame re-creates the columns: the width
\* stays and every column keeps its rows.
C26_ConsecutiveMismatchesOnly ==
    [][ (TakesPacket /\ Head(raw_data_rx).payload /= <<>>
            /\ Len(data.dataset) > 0
            /\ failed_format_counter <= FormatThreshold
            /\ Len(data.time) = Len(data.dataset[1])) =>
          /\ Len(split(Head(raw_data_rx).payload)) = Len(data.dataset) =>
                failed_format_counter' = 0
          /\ Mismatch(Head(raw_data_rx)) =>
                failed_format_counter' = failed_format_counter + 1
          /\ ExtendsRows(data.dataset, data'.dataset)
          /\ Len(data'.time) = Len(data'.dataset[1])
      ]_vars

\* C26 witness: an epoch of width 2 has seen eleven one-number frames, in a
\* run of six and a run of five separated by a frame of two numbers; it still
\* has its two columns and both rows, and the counter stands at five
C26_Witness ==
    /\ Len(data.raw_traffic) = 14
    /\ CountOf(data.raw_traffic, P_7) = FormatThreshold + 1
    /\ LastAre(data.raw_traffic, 5, P_7)
    /\ data.raw_traffic[9].payload = P_12
    /\ failed_format_counter = 5
    /\ Len(data.dataset) = 2
    /\ Len(data.dataset[1]) = 2
    /\ Len(data.time) = 2

\* the aggregator takes a Sent event from the queue
TakesSent == TakesPacket /\ Head(raw_data_rx).direction = "Send"

\* C27: a Sent event is only recorded in the raw-event log: the step that
\* takes it leaves the numeric columns, the time axis, the epoch width and
\* the malformed-frame counter as they were.
C27_SentOnlyLogged ==
    [][ TakesSent =>
          /\ data'.raw_traffic = Append(data.raw_traffic, Head(raw_data_rx))
          /\ data'.dataset = data.dataset
          /\ data'.time = data.time
          /\ failed_format_counter' = failed_format_counter ]_vars

----------------------------------------------------------------------------
(* Properties of the column-name announcements *)

\* main_thread handles the head of the load channel
HandlesLoad == pc_main = "load" /\ pc_main' /= "load" /\ load_rx /= <<>>

\* C28: a successful load appends exactly one announcement, the names of the
\* loaded file, to the names channel, and in the state that holds the
\* announcement the dataset is the loaded one; a failed load, a rejected
\* extension and a close-file request append none, and no other step of the
\* aggregator or the consumer adds to the channel.
C28_OneAnnouncementPerLoad ==
    [][ /\ Loads(CsvGood) =>
              /\ load_names_rx' = Append(load_names_rx, CsvGood.names)
              /\ data' = open_from_csv(data, CsvGood).data
              /\ data'.loaded_from_file
        /\ (Loads(CsvRagged) \/ Loads(TxtFile) \/ Loads(NoPath)) =>
              load_names_rx' = load_names_rx
        /\ load_names_rx' /= load_names_rx =>
              \/ HandlesLoad /\ Head(load_rx).ext = "csv"
                    /\ open_from_csv(data, Head(load_rx)).ok
                    /\ Len(load_names_rx') = Len(load_names_rx) + 1
              \/ load_names_rx' = Tail(load_names_rx)
      ]_vars

\* C28 witness: a successful load has just been handled while live rows were
\* held: the channel holds the one announcement and the dataset is the file's,
\* the last publication still showing the live rows it replaced
C28_Witness ==
    /\ pc_main = "publish"
    /\ load_names_rx = <<CsvGood.names>>
    /\ data = open_from_csv(DataContainerDefault, CsvGood).data
    /\ file_opened
    /\ ~data_lock.loaded_from_file
    /\ Len(data_lock.time) = 1

----------------------------------------------------------------------------
(* Properties of the decoding of a read *)

\* the packets the step has put on the event channel
Emitted == SubSeq(raw_data_rx', Len(raw_data_rx) + 1, Len(raw_data_rx'))

\* the payloads of the packets, written one after the other with delim
\* between them
RECURSIVE Joined(_, _)
Joined(packets, delim) ==
    IF packets = <<>> THEN <<>>
    ELSE IF Len(packets) = 1 THEN packets[1].payload
    ELSE packets[1].payload \o delim \o Joined(Tail(packets), delim)

\* the delimiter of the buffer: CR LF when the buffer holds it, else NUL NUL
DelimiterOf(buf) ==
    IF \E k \in 1..(Len(buf) - 1) : buf[k] = CR /\ buf[k + 1] = LF
    THEN <<CR, LF>>
    ELSE <<NUL, NUL>>

\* C29: a successful read of the buffer h_io'.bytes appends to the event
\* channel one Received packet per line: the payloads, joined in their order
\* by the buffer's delimiter (CR LF if the buffer holds it, NUL NUL if not),
\* give the buffer back, up to one delimiter that ended the buffer; no payload
\* holds that delimiter; and the empty buffer emits nothing.
C29_DecodeSplitsOnDelimiter ==
    [][ (Reads /\ h_io'.op = "read_ok") =>
          LET buf   == h_io'.bytes
              delim == DelimiterOf(buf)
          IN /\ SubSeq(raw_data_rx', 1, Len(raw_data_rx)) = raw_data_rx
             /\ \A i \in 1..Len(Emitted) :
                   /\ Emitted[i].direction = "Receive"
                   /\ ~Contains(Emitted[i].payload, delim)
                   /\ Emitted[i].relative_time = clock
             /\ buf \in {Joined(Emitted, delim), Joined(Emitted, delim) \o delim}
             /\ (Emitted = <<>>) = (buf = <<>>)
      ]_vars

\* C29 witness: the buffer with NUL NUL before CR LF has been read and
\* decoded on CR LF into the one payload NUL NUL
C29_Witness ==
    /\ pc_ser = "conn_enum"
    /\ h_io = Io("read_ok", FALSE, <<NUL, NUL, CR, LF>>)
    /\ Len(raw_data_rx) = 1
    /\ raw_data_rx[1].payload = <<NUL, NUL>>

\* a buffer without CR LF has been read and decoded on NUL NUL into two
\* packets, in the order of the buffer
C29_FallbackWitness ==
    /\ pc_ser = "conn_enum"
    /\ h_io = Io("read_ok", FALSE, <<CR, NUL, NUL, LF>>)
    /\ Len(raw_data_rx) = 2
    /\ raw_data_rx[1].payload = <<CR>>
    /\ raw_data_rx[2].payload = <<LF>>

----------------------------------------------------------------------------
(* Properties of the tokenization *)

\* the positions that bound the tokens of the payload: before its first
\* character, at every ':' and ',', and behind its last character
Cuts(p) == {0} \cup {i \in 1..Len(p) : p[i] \in {":", ","}} \cup {Len(p) + 1}

\* the k-th of these positions, from the left
NthCut(p, k) ==
    CHOOSE c \in Cuts(p) : Cardinality({d \in Cuts(p) : d < c}) = k - 1

\* the tokens of the payload, from left to right
TokensOf(p) ==
    [k \in 1..(Cardinality(Cuts(p)) - 1) |->
        SubSeq(p, NthCut(p, k) + 1, NthCut(p, k + 1) - 1)]

\* the token without the blanks around it
Strip(tok) ==
    LET inked == {i \in 1..Len(tok) : tok[i] /= " "}
    IN IF inked = {} THEN <<>>
       ELSE SubSeq(tok, CHOOSE i \in inked : \A j \in inked : i <= j,
                        CHOOSE i \in inked : \A j \in inked : i >= j)

\* the stripped token is a number
IsNumber(tok) == Len(Strip(tok)) > 0 /\ Range(Strip(tok)) \subseteq Digits

\* the values of the numeric tokens of the payload, from left to right
NumbersOf(p) ==
    LET toks    == TokensOf(p)
        numeric == {k \in 1..Len(toks) : IsNumber(toks[k])}
        nth(j)  == CHOOSE k \in numeric :
                      Cardinality({m \in numeric : m < k}) = j - 1
    IN [j \in 1..Cardinality(numeric) |-> ParseVal(Strip(toks[nth(j)]))]

\* C30: the vector parsed from a payload holds the values of exactly its
\* numeric tokens (the pieces between ':' and ',' without the blanks around
\* them), from left to right; the other tokens are dropped. The aggregator
\* uses this vector: on an empty dataset its length, at least 1, becomes the
\* width; on a dataset of that width its values become the next row; on a
\* dataset of another width the frame counts as malformed. The length is 0
\* when no token is numeric.
C30_TokensParsedInOrder ==
    [][ (TakesPacket /\ Head(raw_data_rx).payload /= <<>>) =>
          LET numbers == NumbersOf(Head(raw_data_rx).payload)
          IN /\ split(Head(raw_data_rx).payload) = numbers
             /\ IF data.dataset = <<>>
                THEN data'.dataset = Repeat(<<>>, Max(Len(numbers), 1))
                ELSE IF Len(numbers) = Len(data.dataset)
                THEN /\ data'.dataset =
                          [i \in 1..Len(numbers) |->
                              Append(data.dataset[i], numbers[i])]
                     /\ failed_format_counter' = 0
                ELSE /\ data'.dataset = data.dataset
                     /\ failed_format_counter' = failed_format_counter + 1
      ]_vars

\* C30 witness: the two frames "x:2,1" have been taken: the letter was
\* dropped, the two numbers are the first row, in the order of the payload
C30_Witness ==
    /\ raw_data_rx = <<>>
    /\ Len(data.raw_traffic) = 2
    /\ data.raw_traffic[2].payload = <<"x", ":", "2", ",", "1">>
    /\ data.dataset = << <<2>>, <<1>> >>
    /\ failed_format_counter = 0

\* the two frames "x, :" have been taken: no token is numeric, the parsed
\* vector is empty and the second frame was counted as malformed
C30_NoNumberWitness ==
    /\ raw_data_rx = <<>>
    /\ Len(data.raw_traffic) = 2
    /\ data.raw_traffic[2].payload = <<"x", ",", " ", ":">>
    /\ data.dataset = << <<>> >>
    /\ failed_format_counter = 1

----------------------------------------------------------------------------
(* Properties of the link parameters *)

\* C31: while a session on the endpoint that the consumer configured is open,
\* the baud rate, data bits, parity, stop bits, flow control and read
\* timeout of the port are those the consumer set for that endpoint before
\* connecting.
C31_SessionUsesConfiguredLink ==
    (port /= NoPort /\ device.name = gui_device.name) =>
        LinkInForce(device) = LinkConfigured(gui_device)

\* of the six parameters the baud rate is the configured one
C31_BaudAsConfigured ==
    (port /= NoPort /\ device.name = gui_device.name) =>
        LinkInForce(device).baud_rate = gui_device.baud_rate

\* a session is open whose parameters are all as configured: the consumer
\* had chosen the values with which serial_thread builds the port
C31_MatchingSession ==
    /\ port = "A" /\ connected_to_device
    /\ LinkInForce(device) = LinkConfigured(gui_device)

----------------------------------------------------------------------------
(* Properties of the absolute-time axis *)

\* C32: the absolute-time axis of the dataset is as long as its relative-time
\* axis, whatever frames, epoch resets and corruption resets came before.
C32_AbsoluteTimeAligned == Len(data.absolute_time) = Len(data.time)

\* the two axes are aligned as long as the time axis was never emptied by a
\* corruption reset: up to the first such reset both grow together
C32_AlignedWhileTimeGrows ==
    [][ Len(data.absolute_time) = Len(data.time) =>
           \/ Len(data'.absolute_time) = Len(data'.time)
           \/ /\ TakesPacket
              /\ data.dataset /= <<>>
              /\ Len(data.time) /= Len(data.dataset[1])
              /\ data'.time = <<>>
              /\ data'.absolute_time /= <<>> ]_vars

----------------------------------------------------------------------------
(* Properties of the disconnect request *)

\* the session ends because the configured name is no longer the session's
\* endpoint (serial.rs:331-335)
EndsByRequest ==
    /\ pc_ser = "disc_button" /\ port /= NoPort /\ port' = NoPort

\* C33: when a session ends on the consumer's disconnect request, the
\* interrupt sentinel that the request queued has been handled in that
\* session: it is not left in the command queue.
C33_InterruptBeforeSessionEnd ==
    [][ EndsByRequest =>
          \A i \in 1..Len(send_rx') : send_rx'[i] /= CtrlcCmd ]_vars

\* the interleaving in which the sentinel is handled in its session: the
\* request came between the disconnect check and perform_writes, the byte was
\* written and the session is about to end
C33_WrittenInSession ==
    /\ pc_ser = "disc_button" /\ port /= NoPort
    /\ device_lock.name /= device.name
    /\ send_rx = <<>>
    /\ h_user_disconnect

----------------------------------------------------------------------------
(* Properties of a request made during an open attempt *)

\* the open attempt on the session's endpoint fails while the configured name
\* is that of another endpoint
OpenFailsDuringRequest ==
    /\ pc_ser = "open" /\ pc_ser' = "top"
    /\ device_lock.name /= NoName
    /\ device_lock.name /= device.name

\* C34: a failure of the open of endpoint X leaves a request for another
\* endpoint Y, made by the consumer while the open was in progress, in place:
\* the configured name is still Y after the failure.
C34_RequestSurvivesOpenFailure ==
    [][ OpenFailsDuringRequest => device_lock'.name = device_lock.name ]_vars

----------------------------------------------------------------------------
(* Properties of a failing enumeration *)

\* the enumeration of the endpoints fails in this step
EnumerationFails ==
    /\ pc_ser \in {"get_device", "conn_enum"}
    /\ pc_ser' \notin {"gd_decide", "disc_button"}

\* C35: a failure to enumerate the endpoints, while searching or during a
\* session, leaves serial_thread running: it is at a position of its loop
\* from which it goes on polling.
C35_EnumerationFailureSurvived ==
    [][ EnumerationFails =>
          pc_ser' \in {"top", "get_device", "gd_sleep", "conn_enum"} ]_vars

\* serial_thread has ended during a session: the consumer still shows the
\* session as open
C35_WorkerGone ==
    pc_ser = "panicked" /\ port = NoPort /\ connected_lock /\ connected_to_device

----------------------------------------------------------------------------
(* Properties of the bytes of an incomplete line *)

\* C36: a read that ends with a timeout loses no byte: the bytes that had
\* arrived before it are still there for a later read.
C36_TimeoutKeepsBytes ==
    [][ (Reads /\ h_io'.op = "read_timeout") => rx_wire' = rx_wire ]_vars

\* a read that returns a line takes exactly the bytes of that line, up to its
\* LF, and leaves the bytes behind it in place
C36_LineTakenWhole ==
    [][ (Reads /\ h_io'.op = "read_ok") =>
           /\ rx_wire = h_io'.bytes \o rx_wire'
           /\ h_io'.bytes[Len(h_io'.bytes)] = LF ]_vars

\* the line "12" was sent in two pieces with a timeout between them: the
\* event that was emitted for it holds "2" only
C36_LineCut ==
    /\ raw_data_rx /= <<>>
    /\ raw_data_rx[1].payload = <<"2">>
    /\ h_io = Io("read_ok", FALSE, <<"2", CR, LF>>)

----------------------------------------------------------------------------
(* Properties of the consumer's file-opened mode *)

\* C37: after a load has failed or was rejected for its extension, the
\* consumer leaves file-opened mode.
C37_FailedLoadLeavesFileMode ==
    (h_logged \in {"load", "extension"}) ~> ~gui_file_opened

\* whenever the consumer is in file-opened mode, the published dataset is
\* eventually marked as loaded from a file
C37_FileModeShowsFile ==
    gui_file_opened ~> data_lock.loaded_from_file

\* the consumer leaves file-opened mode only by its Close file button
C37_OnlyCloseLeaves ==
    [][ (gui_file_opened /\ ~gui_file_opened') =>
            load_rx' = Append(load_rx, NoPath) ]_vars

----------------------------------------------------------------------------
(* The order of the command channel at the start of a session *)

\* gui.rs:716-721: the Connect button, pressed while commands typed earlier
\* still wait in the channel; the channel holds up to MaxTyped commands
ConsumerConnectBehind(n, b) ==
    /\ ~connected_to_device
    /\ ~gui_file_opened
    /\ Len(send_rx) < MaxTyped
    /\ device_lock' = [name |-> n, baud_rate |-> b]
    /\ h_user_disconnect' = (n = NoName /\ h_user_disconnect)
    /\ send_rx' = Append(send_rx, ResetCmd)
    /\ UNCHANGED <<present, devices_lock, connected_lock,
                   last_connected_device, pc_ser, device, devices, port,
                   connected_to_device, h_cfg_name>>
    /\ UNCHANGED <<aggOnlyVars, raw_data_rx, clock>>
    /\ h_open_failed' = FALSE
    /\ UNCHANGED h_io
    /\ UNCHANGED restVars

\* the worker, and a consumer that types "ls" and presses Connect in any order
NextFirst ==
    \/ SerialTop \/ GetDeviceEnum \/ GetDeviceDecide \/ GetDeviceSleep
    \/ OpenOk \/ OpenErr
    \/ ConnEnum \/ DisconnectedButton \/ DisconnectedUnplug
    \/ PerformWrites \/ PerformReads
    \/ RawDataTaken
    \/ ConsumerRefresh \/ ConsumerConnectBehind("A", 115200)
    \/ ConsumerType(<<"ls">>, <<CR, LF>>)
    \/ Attach("A")

SpecFirst == Init /\ [][NextFirst]_vars

\* serial.rs:230-239: the step opens the port: a session starts
OpensSession == pc_ser = "open" /\ port = NoPort /\ port' /= NoPort

\* the command is somewhere in the queue
Queued(cmd, q) == \E i \in 1..Len(q) : q[i] = cmd

\* C38: a session that starts with the reset sentinel of a Connect in the
\* command channel starts with it at the head of the channel, so that the
\* reset is the first command perform_writes handles in the session and
\* nothing enqueued before the Connect is transmitted ahead of it
C38_ResetFirstInSession ==
    [][ (OpensSession /\ Queued(ResetCmd, send_rx)) =>
          Head(send_rx) = ResetCmd ]_vars

\* the typed command has been written to the port of the session while the
\* reset of the Connect that led to the session still waits behind it
C38_TypedWrittenAheadOfReset ==
    /\ port /= NoPort
    /\ h_io.op = "write_ok"
    /\ h_io.bytes = <<"ls", CR, LF>>
    /\ send_rx = <<ResetCmd>>

\* perform_writes takes commands from the head of the channel only and the
\* consumer adds at the tail only
C38_ChannelIsFifo ==
    [][ \/ send_rx' = send_rx
        \/ send_rx /= <<>> /\ send_rx' = Tail(send_rx) /\ HandlesCommand
        \/ \E c \in {ResetCmd, <<"ls", CR, LF>>} : send_rx' = Append(send_rx, c)
      ]_vars

----------------------------------------------------------------------------
(* Progress of the command channel during a session *)

\* serial.rs:265-279: the worker's thread keeps running its session loop:
\* every step of the loop that can be taken is eventually taken
SpecFirstFair ==
    /\ SpecFirst
    /\ WF_vars(ConnEnum)
    /\ WF_vars(DisconnectedButton)
    /\ WF_vars(DisconnectedUnplug)
    /\ WF_vars(PerformWrites)
    /\ WF_vars(PerformReads)

\* the step takes the oldest command off the channel and handles it: the
\* sentinel toggles the control lines, anything else is written or fails
TakesCommand ==
    /\ HandlesCommand
    /\ send_rx' = Tail(send_rx)
    /\ h_io' \in {o.io : o \in WriteOutcomes(Head(send_rx))}

\* C39: under fair scheduling the command channel retains no command for
\* ever during a session: if from some point on the session stays open and
\* the channel stays non-empty, the worker takes commands from the head of
\* the channel again and again, so every queued command is eventually
\* taken and written, handled as a sentinel, or dropped with a write error
C39_CommandsEventuallyTaken ==
    <>[](port /= NoPort /\ send_rx /= <<>>) => []<><<TakesCommand>>_vars

\* a command is taken within the cycle in which it is found: the channel is
\* non-empty in a session leads to the worker having handled a command or to
\* the end of the session
C39_QueuedLeadsToHandled ==
    (port /= NoPort /\ send_rx /= <<>>)
        ~> (port = NoPort \/ (pc_ser = "reads" /\ h_io /= IoIdle))

\* a session is open, the worker has just taken the only queued command and
\* dropped it with a write error
C39_Witness ==
    /\ port /= NoPort
    /\ pc_ser = "reads"
    /\ h_io = Io("write_err", FALSE, <<>>)
    /\ send_rx = <<>>
    /\ connected_to_device

----------------------------------------------------------------------------
(* The consumer's command history *)

\* the largest index the wrapped arithmetic is followed to
MaxIndex == 3

\* the most commands the history is followed to
MaxHist == 2

\* usize::MAX of the smallest target the program builds for (32 bits)
UsizeMax == 2147483647

\* std::cmp::min on usize
MinUsize(a, b) == IF a <= b THEN a ELSE b

\* usize::saturating_sub
SaturatingSub(a, b) == IF a >= b THEN a - b ELSE 0

\* gui.rs:564-566, 570-572: self.history[self.index] is read iff the history
\* is not empty; an index out of bounds panics
ReadsHistory(h, i) ==
    gui_panicked' = (h /= <<>> /\ i >= Len(h))

\* gui.rs:549-559: Send (or Enter) pushes the typed text to the history, moves
\* the index to the new entry and queues the text with the end-of-line string
ConsumerSendKept(text, eol) ==
    /\ ~gui_panicked
    /\ Len(send_rx) < MaxTyped
    /\ Len(history) < MaxHist
    /\ history' = Append(history, text)
    /\ index' = Len(history') - 1
    /\ send_rx' = Append(send_rx, text \o eol)
    /\ UNCHANGED <<gui_device, gui_panicked, rx_wire>>
    /\ UNCHANGED <<present, devices_lock, device_lock, connected_lock,
                   last_connected_device, pc_ser, device, devices, port,
                   connected_to_device, h_user_disconnect, h_cfg_name>>
    /\ UNCHANGED <<aggOnlyVars, raw_data_rx, clock>>
    /\ UNCHANGED histVars

\* gui.rs:562-567: ArrowUp
ConsumerArrowUp ==
    /\ ~gui_panicked
    /\ index' = SaturatingSub(index, 1)
    /\ ReadsHistory(history, index')
    /\ UNCHANGED <<gui_device, history, rx_wire>>
    /\ UNCHANGED <<aggVars, serVars, histVars>>

\* gui.rs:568-573: ArrowDown. With an empty history self.history.len() - 1 is
\* 0 - 1 on usize: the subtraction panics where overflow checks are compiled
\* in (the debug profile) and wraps to usize::MAX where they are not (the
\* release profile)
ConsumerArrowDown ==
    /\ ~gui_panicked
    /\ index < MaxIndex
    /\ IF history = <<>>
       THEN \/ /\ gui_panicked' = TRUE
               /\ UNCHANGED index
            \/ /\ index' = MinUsize(index + 1, UsizeMax)
               /\ ReadsHistory(history, index')
       ELSE /\ index' = MinUsize(index + 1, Len(history) - 1)
            /\ ReadsHistory(history, index')
    /\ UNCHANGED <<gui_device, history, rx_wire>>
    /\ UNCHANGED <<aggVars, serVars, histVars>>

\* the consumer sends texts and walks its history in any order while the
\* worker runs its sessions and takes the commands off the channel
NextHist ==
    \/ SerialTop \/ GetDeviceEnum \/ GetDeviceDecide \/ GetDeviceSleep
    \/ OpenOk \/ OpenErr
    \/ ConnEnum \/ DisconnectedButton \/ DisconnectedUnplug
    \/ PerformWrites \/ PerformReads
    \/ RawDataTaken
    \/ ConsumerRefresh \/ ConsumerConnectTo("A", 115200)
    \/ Attach("A")
    \/ \E text \in TypedTexts, eol \in Eols : ConsumerSendKept(text, eol)
    \/ ConsumerArrowUp
    \/ ConsumerArrowDown

SpecHist == Init /\ [][NextHist]_vars

\* C40: navigating the command history never faults: the consumer's thread
\* does not panic, the index arithmetic does not underflow (the index of an
\* empty history stays 0), and the index of a non-empty history is below
\* its length
C40_NavigationNeverFaults ==
    /\ ~gui_panicked
    /\ history = <<>> => index = 0
    /\ history /= <<>> => index < Len(history)

\* the part that holds: whenever the history is not empty the index is
\* within it
C40_IndexWithinHistory ==
    history /= <<>> => index < Len(history)

\* no read of the history is out of bounds: the thread panics only in the
\* subtraction on an empty history
C40_PanicOnlyOnEmpty ==
    gui_panicked => history = <<>>

\* the wrapped subtraction has moved the index of the empty history
C40_WrappedIndex ==
    ~gui_panicked /\ history = <<>> /\ index = 2

====
